---- MODULE Spec2Model ----
(***************************************************************************)
(* Model of the journal application's retrieval engine (src/utils.js), the *)
(* entry CRUD layer (src/db.js, src/server.js) and the retrieval consumers *)
(* built on them.                                                          *)
(*                                                                         *)
(* JavaScript numbers are IEEE-754 binary64 values.  They are modelled     *)
(* bit-exactly: a finite double is sign * m * 2^e with m an odd natural    *)
(* below 2^53 (zero: m = 0), kept as little-endian limbs in base 2^15      *)
(* because the checker's integers are 32 bits wide.  Every operation       *)
(* rounds to nearest, ties to even, with overflow to Infinity, gradual     *)
(* underflow and NaN, as the language prescribes.                          *)
(***************************************************************************)
EXTENDS Integers, Sequences, FiniteSets, TLC

(***************************************************************************)
(* Natural numbers of arbitrary size: little-endian limbs, no high zeros.  *)
(***************************************************************************)
LimbBits == 15

Base == 32768

Max(a, b) == IF a >= b THEN a ELSE b

Min(a, b) == IF a <= b THEN a ELSE b

Limb(x, i) == IF i >= 1 /\ i <= Len(x) THEN x[i] ELSE 0

\* The operations are written without recursion over the limbs (carries are
\* found by lookahead) so that their evaluation stays shallow.
\* the first n values of f as a sequence, each computed once
Tuple(f, n) == SubSeq(f, 1, n)

BNorm(x) ==
  IF x = <<>> \/ x[Len(x)] # 0 THEN x
  ELSE LET nz == {i \in 1..Len(x) : x[i] # 0}
       IN  IF nz = {} THEN <<>>
           ELSE SubSeq(x, 1, CHOOSE i \in nz : \A j \in nz : j <= i)

BFromNat(n) ==
  IF n = 0 THEN <<>>
  ELSE IF n < Base THEN <<n>>
  ELSE IF n < Base * Base THEN <<n % Base, n \div Base>>
  ELSE <<n % Base, (n \div Base) % Base, n \div (Base * Base)>>

\* -1, 0 or 1 as x < y, x = y or x > y
BCmp(x, y) ==
  IF Len(x) < Len(y) THEN -1
  ELSE IF Len(x) > Len(y) THEN 1
  ELSE LET df == {i \in 1..Len(x) : x[i] # y[i]}
       IN  IF df = {} THEN 0
           ELSE LET t == CHOOSE i \in df : \A j \in df : j <= i
                IN  IF x[t] < y[t] THEN -1 ELSE 1

BAdd(x, y) ==
  LET n == Max(Len(x), Len(y))
      s == Tuple([i \in 1..n |-> Limb(x, i) + Limb(y, i)], n)
      c == [i \in 1..(n + 1) |->
             IF \E j \in 1..(i - 1) :
                  s[j] >= Base /\ \A k \in (j + 1)..(i - 1) : s[k] = Base - 1
             THEN 1 ELSE 0]
  IN  BNorm(Tuple([i \in 1..(n + 1) |-> IF i <= n THEN (s[i] + c[i]) % Base ELSE c[i]],
                  n + 1))

\* x - y, for x >= y
BSub(x, y) ==
  LET n == Len(x)
      b == [i \in 1..n |->
             IF \E j \in 1..(i - 1) :
                  x[j] < Limb(y, j) /\ \A k \in (j + 1)..(i - 1) : x[k] = Limb(y, k)
             THEN 1 ELSE 0]
  IN  BNorm(Tuple([i \in 1..n |-> (x[i] - Limb(y, i) - b[i] + Base) % Base], n))

\* x * d, for 0 <= d < Base
BMulSmall(x, d) ==
  BAdd(Tuple([i \in 1..Len(x) |-> (x[i] * d) % Base], Len(x)),
       <<0>> \o [i \in 1..Len(x) |-> (x[i] * d) \div Base])

Zeros(n) == [i \in 1..n |-> 0]

\* the sum over j in lo..hi of x * y[j] * Base^(j-1)
RECURSIVE BMulRange(_, _, _, _)
BMulRange(x, y, lo, hi) ==
  IF lo = hi THEN Zeros(lo - 1) \o BMulSmall(x, y[lo])
  ELSE LET mid == (lo + hi) \div 2
       IN  BAdd(BMulRange(x, y, lo, mid), BMulRange(x, y, mid + 1, hi))

BMul(x, y) ==
  IF x = <<>> \/ y = <<>> THEN <<>> ELSE BNorm(BMulRange(x, y, 1, Len(y)))

BShl(x, n) ==
  LET b == n % LimbBits
  IN  IF x = <<>> THEN <<>>
      ELSE Zeros(n \div LimbBits)
           \o BNorm(Tuple([i \in 1..(Len(x) + 1) |->
                             ((Limb(x, i) * 2^b) % Base)
                             + (Limb(x, i - 1) \div 2^(LimbBits - b))], Len(x) + 1))

BShr(x, n) ==
  LET k == n \div LimbBits
      b == n % LimbBits
      y == IF k >= Len(x) THEN <<>> ELSE SubSeq(x, k + 1, Len(x))
  IN  BNorm(Tuple([i \in 1..Len(y) |->
                    (y[i] \div 2^b) + (Limb(y, i + 1) % 2^b) * 2^(LimbBits - b)], Len(y)))

\* 2 * x + b, for a bit b
BDouble(x, b) ==
  BNorm(Tuple([i \in 1..(Len(x) + 1) |->
                ((Limb(x, i) * 2) % Base)
                + (IF i = 1 THEN b ELSE x[i - 1] \div 2^(LimbBits - 1))], Len(x) + 1))

\* whether x mod 2^n # 0
BLowBitsNonzero(x, n) ==
  LET k == n \div LimbBits
      b == n % LimbBits
  IN  \/ \E i \in 1..Min(k, Len(x)) : x[i] # 0
      \/ Limb(x, k + 1) % 2^b # 0

BBit(x, n) == (Limb(x, (n \div LimbBits) + 1) \div 2^(n % LimbBits)) % 2

BIsOdd(x) == x # <<>> /\ x[1] % 2 = 1

BitLenSmall(d) == CHOOSE k \in 0..LimbBits : d < 2^k /\ (k = 0 \/ d >= 2^(k - 1))

BBitLen(x) ==
  IF x = <<>> THEN 0 ELSE LimbBits * (Len(x) - 1) + BitLenSmall(x[Len(x)])

\* number of trailing zero bits of a limb d # 0
TrailingZerosSmall(d) == CHOOSE k \in 0..LimbBits : d % 2^k = 0 /\ d % 2^(k + 1) # 0

\* number of trailing zero bits of x # 0
BTrailingZeros(x) ==
  LET lo == CHOOSE i \in 1..Len(x) : x[i] # 0 /\ \A j \in 1..(i - 1) : x[j] = 0
  IN  LimbBits * (lo - 1) + TrailingZerosSmall(x[lo])

\* Long division of n by d, for n < 2 * d: st = [q, r] after some quotient
\* bits; steps lo..hi each bring down one more (zero) bit of the dividend.
DivStep(d, st) ==
  LET r2 == BDouble(st.r, 0)
      ge == BCmp(r2, d) >= 0
  IN  [q |-> BDouble(st.q, IF ge THEN 1 ELSE 0),
       r |-> IF ge THEN BSub(r2, d) ELSE r2]

RECURSIVE DivSteps(_, _, _, _)
DivSteps(d, st, lo, hi) ==
  IF lo > hi THEN st
  ELSE IF lo = hi THEN DivStep(d, st)
  ELSE LET mid  == (lo + hi) \div 2
           left == DivSteps(d, st, lo, mid)
       IN  IF left.q = <<>> /\ left.r = <<>> THEN left
           ELSE DivSteps(d, left, mid + 1, hi)

\* floor(n * 2^k / d) and whether the division left a remainder, for
\* d <= n < 2 * d or n < d <= 2 * n (n and d of the same bit length)
BDivBits(n, d, k) ==
  LET ge == BCmp(n, d) >= 0
      st == DivSteps(d, [q |-> IF ge THEN <<1>> ELSE <<>>,
                         r |-> IF ge THEN BSub(n, d) ELSE n], 1, k)
  IN  [q |-> st.q, r |-> st.r]

\* Floor square root, the digit-by-digit method: st = [q, r] is the partial
\* root (scaled) and the remainder; step j tries the bit 4^j.
SqrtStep(st, j) ==
  LET bit == BShl(<<1>>, 2 * j)
      t   == BAdd(st.q, bit)
  IN  IF BCmp(st.r, t) >= 0
      THEN [q |-> BAdd(BShr(st.q, 1), bit), r |-> BSub(st.r, t)]
      ELSE [q |-> BShr(st.q, 1), r |-> st.r]

\* steps hi, hi - 1, ..., lo
RECURSIVE SqrtSteps(_, _, _)
SqrtSteps(st, lo, hi) ==
  IF lo > hi THEN st
  ELSE IF lo = hi THEN SqrtStep(st, lo)
  ELSE LET mid  == (lo + hi + 1) \div 2
           left == SqrtSteps(st, mid, hi)
       IN  IF left.q = <<>> /\ left.r = <<>> THEN left
           ELSE SqrtSteps(left, lo, mid - 1)

\* [q |-> floor(sqrt(n)), r |-> n - q^2]
BSqrtRem(n) ==
  SqrtSteps([q |-> <<>>, r |-> n], 0, (BBitLen(n) - 1) \div 2)

(***************************************************************************)
(* IEEE-754 binary64, the JavaScript Number type.                          *)
(*   [k |-> "fin", s |-> sign bit, m |-> odd mantissa (<<>>: zero), e]     *)
(*   [k |-> "inf", s |-> sign bit, ...]      [k |-> "nan", ...]            *)
(***************************************************************************)
MantBits == 53

MinExp == -1074

MaxExp == 1024

NaN == [k |-> "nan", s |-> 0, m |-> <<>>, e |-> 0]

Inf(s) == [k |-> "inf", s |-> s, m |-> <<>>, e |-> 0]

FZero(s) == [k |-> "fin", s |-> s, m |-> <<>>, e |-> 0]

IsNaN(x) == x.k = "nan"

IsInf(x) == x.k = "inf"

IsZero(x) == x.k = "fin" /\ x.m = <<>>

IsFinite(x) == x.k = "fin"

\* the canonical form of sign * m * 2^e: m odd; a magnitude of 2^1024 or more
\* is Infinity
Canon(s, m, e) ==
  IF m = <<>> THEN FZero(s)
  ELSE IF BBitLen(m) + e > MaxExp THEN Inf(s)
  ELSE LET tz == BTrailingZeros(m)
       IN  [k |-> "fin", s |-> s, m |-> BShr(m, tz), e |-> e + tz]

\* sign * (n + sticky fraction) * 2^e rounded to the nearest double, ties to even
RoundPack(s, n, e, sticky) ==
  LET shift == Max(BBitLen(n) - MantBits, MinExp - e)
  IN  IF n = <<>> THEN FZero(s)
      ELSE IF shift <= 0 THEN Canon(s, n, e)
      ELSE LET q    == BShr(n, shift)
               half == BBit(n, shift - 1) = 1
               rest == sticky \/ BLowBitsNonzero(n, shift - 1)
               up   == half /\ (rest \/ BIsOdd(q))
           IN  Canon(s, IF up THEN BAdd(q, <<1>>) ELSE q, e + shift)

FromInt(i) == Canon(IF i < 0 THEN 1 ELSE 0, BFromNat(IF i < 0 THEN -i ELSE i), 0)

FNeg(x) == IF IsNaN(x) THEN NaN ELSE [x EXCEPT !.s = 1 - x.s]

FAbs(x) == IF IsNaN(x) THEN NaN ELSE [x EXCEPT !.s = 0]

Xor(a, b) == IF a = b THEN 0 ELSE 1

\* x * y
FMul(x, y) ==
  IF IsNaN(x) \/ IsNaN(y) THEN NaN
  ELSE IF IsInf(x) \/ IsInf(y)
       THEN (IF IsZero(x) \/ IsZero(y) THEN NaN ELSE Inf(Xor(x.s, y.s)))
  ELSE IF IsZero(x) \/ IsZero(y) THEN FZero(Xor(x.s, y.s))
  ELSE RoundPack(Xor(x.s, y.s), BMul(x.m, y.m), x.e + y.e, FALSE)

\* the exact sum of two finite nonzero doubles, rounded; hi has the larger exponent
FAddFinite(hi, lo) ==
  LET d   == hi.e - lo.e
      far == d > 120
      nh  == BShl(hi.m, IF far THEN 60 ELSE d)
      e   == IF far THEN hi.e - 60 ELSE lo.e
      nl  == IF far THEN <<>> ELSE lo.m
  IN  IF hi.s = lo.s THEN RoundPack(hi.s, BAdd(nh, nl), e, far)
      ELSE IF far THEN RoundPack(hi.s, BSub(nh, <<1>>), e, TRUE)
      ELSE LET c == BCmp(nh, nl)
           IN  IF c = 0 THEN FZero(0)
               ELSE IF c > 0 THEN RoundPack(hi.s, BSub(nh, nl), e, FALSE)
               ELSE RoundPack(lo.s, BSub(nl, nh), e, FALSE)

\* x + y
FAdd(x, y) ==
  IF IsNaN(x) \/ IsNaN(y) THEN NaN
  ELSE IF IsInf(x) THEN (IF IsInf(y) /\ x.s # y.s THEN NaN ELSE x)
  ELSE IF IsInf(y) THEN y
  ELSE IF IsZero(x) /\ IsZero(y) THEN FZero(IF x.s = 1 /\ y.s = 1 THEN 1 ELSE 0)
  ELSE IF IsZero(x) THEN y
  ELSE IF IsZero(y) THEN x
  ELSE IF x.e >= y.e THEN FAddFinite(x, y) ELSE FAddFinite(y, x)

FSub(x, y) == FAdd(x, FNeg(y))

\* x / y
FDiv(x, y) ==
  IF IsNaN(x) \/ IsNaN(y) THEN NaN
  ELSE IF IsInf(x) THEN (IF IsInf(y) THEN NaN ELSE Inf(Xor(x.s, y.s)))
  ELSE IF IsInf(y) THEN FZero(Xor(x.s, y.s))
  ELSE IF IsZero(y) THEN (IF IsZero(x) THEN NaN ELSE Inf(Xor(x.s, y.s)))
  ELSE IF IsZero(x) THEN FZero(Xor(x.s, y.s))
  ELSE LET bx == BBitLen(x.m)
           by == BBitLen(y.m)
           n  == BShl(x.m, Max(by - bx, 0))
           d  == BShl(y.m, Max(bx - by, 0))
           k  == MantBits + 2
           qr == BDivBits(n, d, k)
       IN  RoundPack(Xor(x.s, y.s), qr.q, x.e - y.e + (bx - by) - k, qr.r # <<>>)

\* Math.sqrt(x)
FSqrt(x) ==
  IF IsNaN(x) THEN NaN
  ELSE IF IsZero(x) THEN x
  ELSE IF x.s = 1 THEN NaN
  ELSE IF IsInf(x) THEN x
  ELSE LET k0 == 2 * MantBits + 4 - BBitLen(x.m)
           k  == IF (x.e - k0) % 2 = 0 THEN k0 ELSE k0 + 1
           qr == BSqrtRem(BShl(x.m, k))
       IN  RoundPack(0, qr.q, (x.e - k) \div 2, qr.r # <<>>)

\* the order of two doubles that are not NaN: -1, 0 or 1
MagCmp(x, y) ==
  IF IsZero(x) /\ IsZero(y) THEN 0
  ELSE IF IsZero(x) THEN -1
  ELSE IF IsZero(y) THEN 1
  ELSE IF IsInf(x) /\ IsInf(y) THEN 0
  ELSE IF IsInf(x) THEN 1
  ELSE IF IsInf(y) THEN -1
  ELSE IF x.m = y.m /\ x.e = y.e THEN 0
  ELSE LET lx == BBitLen(x.m) + x.e
           ly == BBitLen(y.m) + y.e
           e  == Min(x.e, y.e)
       IN  IF lx < ly THEN -1
           ELSE IF lx > ly THEN 1
           ELSE BCmp(BShl(x.m, x.e - e), BShl(y.m, y.e - e))

FCmp(x, y) ==
  IF IsZero(x) /\ IsZero(y) THEN 0
  ELSE IF x.s # y.s /\ ~IsZero(x) /\ ~IsZero(y) THEN (IF x.s = 1 THEN -1 ELSE 1)
  ELSE IF IsZero(x) THEN (IF y.s = 1 THEN 1 ELSE -1)
  ELSE IF IsZero(y) THEN (IF x.s = 1 THEN -1 ELSE 1)
  ELSE IF x.s = 1 THEN MagCmp(y, x) ELSE MagCmp(x, y)

\* x > y, x < y, x >= y, x <= y, x === y: false whenever an operand is NaN
FGt(x, y) == ~IsNaN(x) /\ ~IsNaN(y) /\ FCmp(x, y) > 0

FLt(x, y) == ~IsNaN(x) /\ ~IsNaN(y) /\ FCmp(x, y) < 0

FGe(x, y) == ~IsNaN(x) /\ ~IsNaN(y) /\ FCmp(x, y) >= 0

FLe(x, y) == ~IsNaN(x) /\ ~IsNaN(y) /\ FCmp(x, y) <= 0

FEq(x, y) == ~IsNaN(x) /\ ~IsNaN(y) /\ FCmp(x, y) = 0

(***************************************************************************)
(* Text.  A string is the sequence of its character codes; the model's     *)
(* alphabet is ASCII.                                                      *)
(***************************************************************************)
\* String.prototype.toLowerCase on one ASCII character
LowerChar(c) == IF c >= 65 /\ c <= 90 THEN c + 32 ELSE c

toLowerCase(text) == [i \in 1..Len(text) |-> LowerChar(text[i])]

\* a variant of the character class without the space
IsKeptNoSpace(c) == (c >= 97 /\ c <= 122) \/ (c >= 48 /\ c <= 57)

\* the characters /[^a-z0-9 ]/g leaves in place
IsKept(c) == (c >= 97 /\ c <= 122) \/ (c >= 48 /\ c <= 57) \/ c = 32

\* text.toLowerCase().replace(/[^a-z0-9 ]/g, '')
Normalize(text) == SelectSeq(toLowerCase(text), IsKept)

\* the characters String.prototype.trim removes: space, tab, LF, VT, FF, CR
IsWhiteSpace(c) == c = 32 \/ (c >= 9 /\ c <= 13)

\* String.prototype.trim
trim(text) ==
  LET ix == {i \in 1..Len(text) : ~IsWhiteSpace(text[i])}
  IN  IF ix = {} THEN <<>>
      ELSE SubSeq(text, CHOOSE i \in ix : \A j \in ix : i <= j,
                        CHOOSE i \in ix : \A j \in ix : j <= i)

(***************************************************************************)
(* getEmbedding (src/utils.js)                                             *)
(***************************************************************************)
dim == 384

\* x | 0 for the values the hash can take: a trigram of UTF-16 code units
\* hashes below 2^31, where | 0 changes nothing
ToInt32(x) == x

\* one round of the inner loop: ((hash << 5) - hash + charCode) | 0
HashStep(hash, code) == ToInt32((hash * 32) - hash + code)

\* the hash of the trigram at positions i, i+1, i+2 (1-based) of normalized
TrigramHash(normalized, i) ==
  HashStep(HashStep(HashStep(0, normalized[i]), normalized[i + 1]), normalized[i + 2])

Abs(x) == IF x < 0 THEN -x ELSE x

\* Math.abs(hash) % dim
BucketIndex(normalized, i) == Abs(TrigramHash(normalized, i)) % dim

\* the loop bound: i = 0 .. normalized.length - 3, here 1-based
TrigramStarts(normalized) == 1..(Len(normalized) - 2)

\* the bucket of every trigram, in the order of the loop
TrigramIndexes(normalized) ==
  Tuple([i \in TrigramStarts(normalized) |-> BucketIndex(normalized, i)],
        Len(normalized) - 2)

\* vector[index] after the counting loop, as an integer
BucketCount(indexes, index) ==
  Cardinality({i \in 1..Len(indexes) : indexes[i] = index})

\* vector.reduce((sum, v) => sum + v * v, 0): the counts are integers, so
\* every partial sum is exact; the squares of the counts add up to the
\* number of pairs of trigrams that share a bucket
SumOfSquares(indexes) ==
  Cardinality({p \in (1..Len(indexes)) \X (1..Len(indexes)) :
                 indexes[p[1]] = indexes[p[2]]})

\* a variant without Math.sqrt
MagnitudeNoSqrt(indexes) == FromInt(SumOfSquares(indexes))

Magnitude(indexes) == FSqrt(FromInt(SumOfSquares(indexes)))

\* the array getEmbedding returns; position index + 1 holds vector[index]
getEmbedding(text) ==
  LET indexes   == TrigramIndexes(Normalize(text))
      magnitude == Magnitude(indexes)
      hit       == {indexes[i] : i \in 1..Len(indexes)}
      count     == [index \in hit |-> BucketCount(indexes, index)]
      counts    == {count[index] : index \in hit}
      scaled    == [c \in counts |->
                      IF FGt(magnitude, FZero(0)) THEN FDiv(FromInt(c), magnitude)
                      ELSE FromInt(c)]
      filled    == [index \in hit |-> scaled[count[index]]]
  IN  Tuple([p \in 1..dim |-> IF p - 1 \in hit THEN filled[p - 1] ELSE FZero(0)], dim)

(***************************************************************************)
(* cosineSimilarity (src/utils.js)                                         *)
(***************************************************************************)
\* the positions whose term a[i] * b[i] is not a zero; adding a zero term to
\* the running sum (which starts at +0) leaves it as it is
Support(a, b) ==
  {i \in 1..Len(a) : ~(IsZero(a[i]) /\ IsFinite(b[i])) /\ ~(IsZero(b[i]) /\ IsFinite(a[i]))}

\* the elements of a set of integers in increasing order
SortedSeq(S) ==
  [k \in 1..Cardinality(S) |-> CHOOSE i \in S : Cardinality({j \in S : j < i}) = k - 1]

\* acc + a[ix[lo]] * b[ix[lo]] + ... + a[ix[hi]] * b[ix[hi]], added left to right
RECURSIVE DotFrom(_, _, _, _, _, _)
DotFrom(acc, a, b, ix, lo, hi) ==
  IF lo > hi THEN acc
  ELSE IF lo = hi THEN FAdd(acc, FMul(a[ix[lo]], b[ix[lo]]))
  ELSE LET mid  == (lo + hi) \div 2
           left == DotFrom(acc, a, b, ix, lo, mid)
       IN  IF IsNaN(left) THEN NaN ELSE DotFrom(left, a, b, ix, mid + 1, hi)

\* the loop of cosineSimilarity for one accumulator
Dot(a, b) ==
  LET ix == SortedSeq(Support(a, b))
  IN  DotFrom(FZero(0), a, b, ix, 1, Len(ix))

(***************************************************************************)
(* Variants of cosineSimilarity with one line changed.                     *)
(***************************************************************************)
\* b read past its end is undefined, and a number times undefined is NaN
PadUndefined(b, n) == [i \in 1..n |-> IF i <= Len(b) THEN b[i] ELSE NaN]

\* without the early return on unequal lengths
cosineSimilarityNoLengthCheck(a, b) ==
  LET bb    == PadUndefined(b, Len(a))
      dot   == Dot(a, bb)
      magA  == Dot(a, a)
      magB  == Dot(bb, bb)
      denom == FMul(FSqrt(magA), FSqrt(magB))
  IN  IF FEq(denom, FZero(0)) THEN FZero(0) ELSE FDiv(dot, denom)

\* the denominator without the factor of b
cosineSimilarityOnlyMagA(a, b) ==
  IF Len(a) # Len(b) THEN FZero(0)
  ELSE LET dot   == Dot(a, b)
           magA  == Dot(a, a)
           denom == FSqrt(magA)
       IN  IF FEq(denom, FZero(0)) THEN FZero(0) ELSE FDiv(dot, denom)

\* without the return of 0 for a zero denominator
cosineSimilarityNoZeroGuard(a, b) ==
  IF Len(a) # Len(b) THEN FZero(0)
  ELSE LET dot   == Dot(a, b)
           magA  == Dot(a, a)
           magB  == Dot(b, b)
           denom == FMul(FSqrt(magA), FSqrt(magB))
       IN  FDiv(dot, denom)

cosineSimilarity(a, b) ==
  IF Len(a) # Len(b) THEN FZero(0)
  ELSE LET dot   == Dot(a, b)
           magA  == Dot(a, a)
           magB  == Dot(b, b)
           denom == FMul(FSqrt(magA), FSqrt(magB))
       IN  IF FEq(denom, FZero(0)) THEN FZero(0) ELSE FDiv(dot, denom)

(***************************************************************************)
(* JSON.parse on a string of character codes (ECMA-404).  A parse either   *)
(* gives a value or throws a SyntaxError; ok is FALSE for the throw.       *)
(***************************************************************************)
JsNull == [kind |-> "null"]

JsBoolean(b) == [kind |-> "boolean", value |-> b]

\* the number mantissa * 10^exponent, with no trailing zero in the mantissa
JsNumber(mantissa, exponent) ==
  [kind |-> "number", mantissa |-> mantissa, exponent |-> exponent]

JsString(chars) == [kind |-> "string", chars |-> chars]

JsArray(items) == [kind |-> "array", items |-> items]

\* members: the keys in the order of their first appearance, each with the
\* value of its last appearance
JsObject(members) == [kind |-> "object", members |-> members]

SyntaxError == [ok |-> FALSE, pos |-> 0, value |-> JsNull]

Parsed(value, pos) == [ok |-> TRUE, pos |-> pos, value |-> value]

\* the whitespace of the JSON grammar: space, tab, line feed, carriage return
IsJsonWhiteSpace(c) == c = 32 \/ c = 9 \/ c = 10 \/ c = 13

IsDigit(c) == c >= 48 /\ c <= 57

\* the first index from i on that holds no character of the kind, or
\* Len(text) + 1
SkipWhile(text, i, Kind(_)) ==
  LET stops == {j \in i..Len(text) : ~Kind(text[j])}
  IN  IF stops = {} THEN Max(i, Len(text) + 1)
      ELSE CHOOSE j \in stops : \A k \in stops : j <= k

SkipWs(text, i) == SkipWhile(text, i, IsJsonWhiteSpace)

At(text, i) == IF i >= 1 /\ i <= Len(text) THEN text[i] ELSE -1

\* text has the characters of word from index i on
HasAt(text, i, word) ==
  /\ i >= 1
  /\ i + Len(word) - 1 <= Len(text)
  /\ \A k \in 1..Len(word) : text[i + k - 1] = word[k]

HexValue(c) ==
  IF IsDigit(c) THEN c - 48
  ELSE IF c >= 97 /\ c <= 102 THEN c - 87
  ELSE IF c >= 65 /\ c <= 70 THEN c - 55
  ELSE -1

\* the character a two-character escape stands for, or -1
EscapeValue(c) ==
  IF c = 34 \/ c = 92 \/ c = 47 THEN c
  ELSE IF c = 98 THEN 8
  ELSE IF c = 102 THEN 12
  ELSE IF c = 110 THEN 10
  ELSE IF c = 114 THEN 13
  ELSE IF c = 116 THEN 9
  ELSE -1

RECURSIVE StringFrom(_, _, _)
\* the characters of a string from index i on, up to its closing quote
StringFrom(text, i, chars) ==
  LET c == At(text, i)
  IN  IF c = -1 \/ (c >= 0 /\ c < 32) THEN SyntaxError
      ELSE IF c = 34 THEN Parsed(JsString(chars), i + 1)
      ELSE IF c # 92 THEN StringFrom(text, i + 1, Append(chars, c))
      ELSE IF At(text, i + 1) = 117
      THEN LET h == [k \in 1..4 |-> HexValue(At(text, i + 1 + k))]
           IN  IF \E k \in 1..4 : h[k] = -1 THEN SyntaxError
               ELSE StringFrom(text, i + 6,
                      Append(chars, ((h[1] * 16 + h[2]) * 16 + h[3]) * 16 + h[4]))
      ELSE IF EscapeValue(At(text, i + 1)) = -1 THEN SyntaxError
      ELSE StringFrom(text, i + 2, Append(chars, EscapeValue(At(text, i + 1))))

\* text[i] is the opening quote
ParseString(text, i) == StringFrom(text, i + 1, <<>>)

RECURSIVE DigitsValue(_, _, _)
\* the number the digits text[i..j-1] write
DigitsValue(text, i, j) ==
  IF i >= j THEN 0 ELSE DigitsValue(text, i, j - 1) * 10 + (text[j - 1] - 48)

RECURSIVE Normalized(_, _)
Normalized(mantissa, exponent) ==
  IF mantissa = 0 THEN JsNumber(0, 0)
  ELSE IF mantissa % 10 = 0 THEN Normalized(mantissa \div 10, exponent + 1)
  ELSE JsNumber(mantissa, exponent)

\* -? (0 | [1-9][0-9]*) (. [0-9]+)? ([eE] [+-]? [0-9]+)?
ParseNumber(text, i) ==
  LET negative == At(text, i) = 45
      intFrom  == IF negative THEN i + 1 ELSE i
      intTo    == IF At(text, intFrom) = 48 THEN intFrom + 1
                  ELSE SkipWhile(text, intFrom, IsDigit)
      hasFrac  == At(text, intTo) = 46
      fracTo   == IF hasFrac THEN SkipWhile(text, intTo + 1, IsDigit) ELSE intTo
      hasExp   == At(text, fracTo) = 101 \/ At(text, fracTo) = 69
      expSign  == At(text, fracTo + 1) = 43 \/ At(text, fracTo + 1) = 45
      expFrom  == IF expSign THEN fracTo + 2 ELSE fracTo + 1
      expTo    == IF hasExp THEN SkipWhile(text, expFrom, IsDigit) ELSE fracTo
      fracLen  == IF hasFrac THEN fracTo - intTo - 1 ELSE 0
      digits   == DigitsValue(text, intFrom, intTo) * (10 ^ fracLen)
                  + (IF hasFrac THEN DigitsValue(text, intTo + 1, fracTo) ELSE 0)
      exp      == IF ~hasExp THEN 0
                  ELSE IF At(text, fracTo + 1) = 45
                  THEN 0 - DigitsValue(text, expFrom, expTo)
                  ELSE DigitsValue(text, expFrom, expTo)
  IN  IF intTo = intFrom THEN SyntaxError
      ELSE IF hasFrac /\ fracTo = intTo + 1 THEN SyntaxError
      ELSE IF hasExp /\ expTo = expFrom THEN SyntaxError
      ELSE Parsed(Normalized(IF negative THEN 0 - digits ELSE digits, exp - fracLen),
                  expTo)

\* true, false, null
ParseLiteral(text, i) ==
  IF HasAt(text, i, <<116, 114, 117, 101>>) THEN Parsed(JsBoolean(TRUE), i + 4)
  ELSE IF HasAt(text, i, <<102, 97, 108, 115, 101>>) THEN Parsed(JsBoolean(FALSE), i + 5)
  ELSE IF HasAt(text, i, <<110, 117, 108, 108>>) THEN Parsed(JsNull, i + 4)
  ELSE SyntaxError

\* members with the member key: value put in
SetMember(members, key, value) ==
  IF \E k \in 1..Len(members) : members[k].key = key
  THEN [k \in 1..Len(members) |->
          IF members[k].key = key THEN [key |-> key, value |-> value] ELSE members[k]]
  ELSE Append(members, [key |-> key, value |-> value])

RECURSIVE ParseValue(_, _)
RECURSIVE ParseElements(_, _, _)
RECURSIVE ParseMembers(_, _, _)

\* the elements of an array from index i on, up to its closing bracket
ParseElements(text, i, items) ==
  LET element == ParseValue(text, i)
      next    == SkipWs(text, element.pos)
  IN  IF ~element.ok THEN SyntaxError
      ELSE IF At(text, next) = 44
      THEN ParseElements(text, next + 1, Append(items, element.value))
      ELSE IF At(text, next) = 93
      THEN Parsed(JsArray(Append(items, element.value)), next + 1)
      ELSE SyntaxError

\* the members of an object from index i on, up to its closing brace
ParseMembers(text, i, members) ==
  LET keyAt == SkipWs(text, i)
      key   == IF At(text, keyAt) = 34 THEN ParseString(text, keyAt) ELSE SyntaxError
      colon == SkipWs(text, key.pos)
      value == IF key.ok /\ At(text, colon) = 58 THEN ParseValue(text, colon + 1)
               ELSE SyntaxError
      next  == SkipWs(text, value.pos)
  IN  IF ~value.ok THEN SyntaxError
      ELSE IF At(text, next) = 44
      THEN ParseMembers(text, next + 1, SetMember(members, key.value.chars, value.value))
      ELSE IF At(text, next) = 125
      THEN Parsed(JsObject(SetMember(members, key.value.chars, value.value)), next + 1)
      ELSE SyntaxError

\* one value from index i on, after any whitespace
ParseValue(text, i) ==
  LET at == SkipWs(text, i)
      c  == At(text, at)
  IN  IF c = 123
      THEN IF At(text, SkipWs(text, at + 1)) = 125
           THEN Parsed(JsObject(<<>>), SkipWs(text, at + 1) + 1)
           ELSE ParseMembers(text, at + 1, <<>>)
      ELSE IF c = 91
      THEN IF At(text, SkipWs(text, at + 1)) = 93
           THEN Parsed(JsArray(<<>>), SkipWs(text, at + 1) + 1)
           ELSE ParseElements(text, at + 1, <<>>)
      ELSE IF c = 34 THEN ParseString(text, at)
      ELSE IF c = 45 \/ IsDigit(c) THEN ParseNumber(text, at)
      ELSE ParseLiteral(text, at)

\* JSON.parse(text): one value, with nothing but whitespace after it
JSONparse(text) ==
  LET Whole(parsed) ==
        IF parsed.ok /\ SkipWs(text, parsed.pos) > Len(text) THEN parsed
        ELSE SyntaxError
  IN  Whole(ParseValue(text, 1))

(***************************************************************************)
(* safeParseJson (src/utils.js).  The result is the value returned, or     *)
(* threw when an exception leaves the function.                            *)
(***************************************************************************)
Fence == <<96, 96, 96>>

\* "json"
FenceTag == <<106, 115, 111, 110>>

Returned(value) == [threw |-> FALSE, value |-> value]

Thrown == [threw |-> TRUE, value |-> JsNull]

NoMatch == [matched |-> FALSE, text |-> <<>>]

Match(text) == [matched |-> TRUE, text |-> text]

\* the indexes from i on where word begins
Occurrences(text, i, word) == {j \in i..Len(text) : HasAt(text, j, word)}

Least(S) == CHOOSE j \in S : \A k \in S : j <= k

Greatest(S) == CHOOSE j \in S : \A k \in S : j >= k

\* text.match(/```(?:json)?\s*([\s\S]*?)```/): group 1 of the leftmost match.
\* The match opens at the first fence that has a fence after it; the tag and
\* the whitespace after the opening are taken as far as they go (no fence can
\* begin inside them), and the group ends before the first fence from there.
FencedBlock(text) ==
  LET opens == Occurrences(text, 1, Fence)
      open  == Least(opens)
      tagTo == IF HasAt(text, open + 3, FenceTag) THEN open + 7 ELSE open + 3
      from  == SkipWhile(text, tagTo, IsWhiteSpace)
      ends  == Occurrences(text, from, Fence)
  IN  IF opens = {} THEN NoMatch
      ELSE IF ends = {} THEN NoMatch
      ELSE Match(SubSeq(text, from, Least(ends) - 1))

\* text.match(/<open>[\s\S]*<close>/): from the first open to the last close
\* after it
Delimited(text, open, close) ==
  LET opens  == {j \in 1..Len(text) : text[j] = open}
      closes == {j \in 1..Len(text) : text[j] = close /\ j > Least(opens)}
  IN  IF opens = {} THEN NoMatch
      ELSE IF closes = {} THEN NoMatch
      ELSE Match(SubSeq(text, Least(opens), Greatest(closes)))

\* text.match(/\{[\s\S]*\}/)
BraceSubstring(text) == Delimited(text, 123, 125)

\* text.match(/\[[\s\S]*\]/)
BracketSubstring(text) == Delimited(text, 91, 93)

\* what a strategy gives: it applies when its pattern matches, and parse is
\* the outcome of JSON.parse on what it extracts
Strategy(match) ==
  [applies |-> match.matched,
   parse   |-> IF match.matched THEN JSONparse(match.text) ELSE SyntaxError]

\* JSON.parse(text)
DirectParse(text) == Strategy(Match(text))

\* jsonMatch[1].trim()
Trimmed(match) == [match EXCEPT !.text = trim(match.text)]

\* JSON.parse(jsonMatch[1].trim())
FencedParse(text) == Strategy(Trimmed(FencedBlock(text)))

\* JSON.parse(objMatch[0])
BraceParse(text) == Strategy(BraceSubstring(text))

\* JSON.parse(arrMatch[0])
BracketParse(text) == Strategy(BracketSubstring(text))

\* a variant whose parse of the fenced block is outside a try
FirstToParseFenceUncaught(direct, fenced, braced, bracket) ==
  IF direct.parse.ok THEN Returned(direct.parse.value)
  ELSE IF fenced.applies
  THEN IF fenced.parse.ok THEN Returned(fenced.parse.value) ELSE Thrown
  ELSE IF braced.applies /\ braced.parse.ok THEN Returned(braced.parse.value)
  ELSE IF bracket.applies /\ bracket.parse.ok THEN Returned(bracket.parse.value)
  ELSE Returned(JsNull)

\* a variant that tries the bare array before the bare object
FirstToParseArrayFirst(direct, fenced, braced, bracket) ==
  IF direct.parse.ok THEN Returned(direct.parse.value)
  ELSE IF fenced.applies /\ fenced.parse.ok THEN Returned(fenced.parse.value)
  ELSE IF bracket.applies /\ bracket.parse.ok THEN Returned(bracket.parse.value)
  ELSE IF braced.applies /\ braced.parse.ok THEN Returned(braced.parse.value)
  ELSE Returned(JsNull)

\* try { return JSON.parse(text) } catch { fenced block, bare object, bare
\* array, each in its own try with an empty catch; return null }
FirstToParse(direct, fenced, braced, bracket) ==
  IF direct.parse.ok THEN Returned(direct.parse.value)
  ELSE IF fenced.applies /\ fenced.parse.ok THEN Returned(fenced.parse.value)
  ELSE IF braced.applies /\ braced.parse.ok THEN Returned(braced.parse.value)
  ELSE IF bracket.applies /\ bracket.parse.ok THEN Returned(bracket.parse.value)
  ELSE Returned(JsNull)

safeParseJson(text) ==
  FirstToParse(DirectParse(text), FencedParse(text), BraceParse(text),
               BracketParse(text))

(***************************************************************************)
(* State.                                                                  *)
(*   cos*:  a caller of cosineSimilarity with two vectors                  *)
(*   emb*:  a caller of getEmbedding with one text                         *)
(*   heap:  the arrays getEmbedding has allocated, by reference            *)
(*   calls: the calls of getEmbedding so far, each with its text, the      *)
(*          reference it returned and the array's content on return        *)
(*   entries: the rows of the entries table                                *)
(*   nextId:  the id the next created entry gets                           *)
(*   last:    the request being answered, with what its handler computed   *)
(*   slots:   the write requests in flight when requests overlap, each     *)
(*            before or after its one SQL statement                        *)
(*   seen:    the rows the latest SELECT of a reader returned              *)
(*   deleted: the ids whose DELETE was answered with success               *)
(*   json*:  a caller of safeParseJson with one text                       *)
(*   res:     the response of the request an agent endpoint is answering:  *)
(*            its status, whether the headers are sent and the response    *)
(*            is ended, the events written to it, and the completion text  *)
(*            the handler has collected                                    *)
(*   serving: whether the process is up and takes requests                 *)
(*   failures: the retrieval requests whose candidate fetch has failed     *)
(*   keys:    api_key of every user, "" for NULL                           *)
(*   runnerCache: the runner cached under each key of the Map, with the    *)
(*            API key of the model its agent was built with                *)
(*   sessions: the sessions ever created in the runners' session services, *)
(*            each live until it is deleted                                *)
(*   runs:    the invocations of runAgent and streamAgent in flight or     *)
(*            just ended                                                   *)
(*   gate:    what the middleware before a guarded route has made of the   *)
(*            request being handled: its credentials, the user it is       *)
(*            authenticated as, or the answer that turned it away          *)
(*   azureEnabled: ENABLE_AZURE_AUTH === 'true'                            *)
(*   users:     the rows of the table users, in insertion order            *)
(*   signups:   the POST /api/auth/signup requests in flight, per slot     *)
(***************************************************************************)
VARIABLES cosA, cosB, cosPc, cosOut, cosRev,
          embText, embPc, embOut,
          heap, calls,
          entries, nextId, last,
          slots, seen,
          deleted,
          jsonText, jsonPc, jsonOut,
          res,
          serving, failures,
          keys, runnerCache, sessions, runs,
          gate, azureEnabled, users, signups

cosVars == <<cosA, cosB, cosPc, cosOut, cosRev>>

embVars == <<embText, embPc, embOut>>

callVars == <<heap, calls>>

appVars == <<entries, nextId, last>>

concVars == <<slots, seen>>

histVars == <<deleted>>

jsonVars == <<jsonText, jsonPc, jsonOut>>

aiVars == <<res>>

procVars == <<serving, failures>>

agentVars == <<keys, runnerCache, sessions, runs>>

authVars == <<gate, azureEnabled>>
signupVars == <<users, signups>>

vars == <<cosVars, embVars, callVars, appVars, concVars, histVars, jsonVars, aiVars, procVars, agentVars, authVars, signupVars>>

(***************************************************************************)
(* Bounds of the model.                                                    *)
(***************************************************************************)
\* longest vector handed to cosineSimilarity directly
MaxVecLen == 2

\* longest text handed to getEmbedding directly
MaxTextLen == 4

\* 2^600, a double whose square overflows
Huge == Canon(0, <<1>>, 600)

\* the components of the vectors handed to cosineSimilarity directly
Components == {FromInt(0), FromInt(-2), FromInt(3), Huge}

Vectors == UNION {[1..n -> Components] : n \in 0..MaxVecLen}

\* the characters of the texts: a b A space !
Alphabet == {97, 98, 65, 32, 33}

Texts == UNION {[1..n -> Alphabet] : n \in 0..MaxTextLen}

\* most pieces in a text handed to safeParseJson directly
MaxPieces == 3

\* the pieces of those texts: ``` and ```json, the four delimiters, {"a":1},
\* [1], 1, "a", true, the letter x, a line feed, and the fenced block
\* ```json\n[1]\n```
JsonPieces ==
  {Fence, Fence \o FenceTag, <<123>>, <<125>>, <<91>>, <<93>>,
   <<123, 34, 97, 34, 58, 49, 125>>, <<91, 49, 93>>, <<49>>, <<34, 97, 34>>,
   <<116, 114, 117, 101>>, <<120>>, <<10>>,
   Fence \o FenceTag \o <<10, 91, 49, 93, 10>> \o Fence}

RECURSIVE Concat(_)
Concat(pieces) ==
  IF pieces = <<>> THEN <<>> ELSE pieces[1] \o Concat(Tail(pieces))

\* the inputs of the tests of safeParseJson (src/tests/server.test.js):
\* a fenced object, a plain object, an object inside prose
FencedExample ==
  <<96, 96, 96, 106, 115, 111, 110, 10, 123, 34, 109, 111, 111, 100, 34,
    58, 32, 34, 104, 97, 112, 112, 121, 34, 44, 32, 34, 116, 97, 103, 115,
    34, 58, 32, 91, 34, 99, 111, 100, 105, 110, 103, 34, 93, 125, 10, 96,
    96, 96>>

PlainExample ==
  <<123, 34, 107, 101, 121, 34, 58, 32, 34, 118, 97, 108, 117, 101, 34,
    125>>

ProseExample ==
  <<72, 101, 114, 101, 32, 105, 115, 32, 116, 104, 101, 32, 114, 101, 115,
    117, 108, 116, 58, 10, 123, 34, 109, 111, 111, 100, 34, 58, 32, 34,
    102, 111, 99, 117, 115, 101, 100, 34, 125, 10, 69, 110, 100, 32, 111,
    102, 32, 97, 110, 97, 108, 121, 115, 105, 115, 46>>

JsonTexts ==
  {Concat(pieces) : pieces \in UNION {[1..n -> JsonPieces] : n \in 0..MaxPieces}}
    \cup {FencedExample, PlainExample, ProseExample}

\* most calls of getEmbedding in one behaviour of the callers
MaxCalls == 3

\* the texts of those calls: "aba", " aba" and "ab"
CallTexts == {<<97, 98, 97>>, <<32, 97, 98, 97>>, <<97, 98>>}

\* what a caller writes into a vector it received: 7 at index 0 or at the
\* last index
MutatedPositions == {1, dim}

MutatedValue == FromInt(7)

\* most entries ever created in one behaviour of the journal
MaxEntries == 2

Users == {"u1", "u2"}

Rep(c, n) == [i \in 1..n |-> c]

\* "bba"
TextBba == <<98, 98, 97>>

\* " bba"
TextSpaceBba == <<32, 98, 98, 97>>

\* "bbbbbbaaaaaaaaaaab", whose similarity to "bba" is the double 0.1
TextTenth == Rep(98, 6) \o Rep(97, 11) \o Rep(98, 1)

\* "bbbbbbbbbaaaaaa          bbbaaaaaaaaaaaaaa", whose similarity to "bba"
\* is the double 0.15
TextFifteenHundredths ==
  Rep(98, 9) \o Rep(97, 6) \o Rep(32, 10) \o Rep(98, 3) \o Rep(97, 14)

\* the content of the requests; <<>> is the empty or missing content
ContentInputs == {<<>>, TextSpaceBba, TextTenth, TextFifteenHundredths}

\* " ", a content of whitespace only
TextBlank == <<32>>

\* the content of the POST and of the PUT requests when only writes are
\* followed; <<>> is the empty or missing content
CreateContents == {<<>>, TextBlank, TextSpaceBba}

UpdateContents == {<<>>, TextBlank}

\* the title of the PUT requests then; <<>> is the missing title
WriteTitles == {<<>>, <<"Renamed">>}

\* the title of the requests; <<>> is the missing title
TitleInputs == {<<>>}

\* the text of the retrieval requests; <<>> is the empty or missing text
QueryInputs == {<<>>, TextBba}

\* the limit of the tool calls, any number by the tools' schema; <<>> is the
\* missing limit
LimitInputs == {<<>>, <<0>>, <<1>>, <<-1>>}

(***************************************************************************)
(* A caller of cosineSimilarity: it calls with (a, b) and with (b, a).     *)
(***************************************************************************)
CosIdle ==
  /\ cosA = <<>> /\ cosB = <<>> /\ cosPc = "idle"
  /\ cosOut = FZero(0) /\ cosRev = FZero(0)

CosInit ==
  /\ cosA \in Vectors /\ cosB \in Vectors /\ cosPc = "call"
  /\ cosOut = FZero(0) /\ cosRev = FZero(0)

CallCosine ==
  /\ cosPc = "call"
  /\ cosOut' = cosineSimilarity(cosA, cosB)
  /\ cosRev' = cosineSimilarity(cosB, cosA)
  /\ cosPc' = "done"
  /\ UNCHANGED <<cosA, cosB, embVars, callVars, appVars, concVars, histVars, jsonVars, aiVars, procVars, agentVars, authVars, signupVars>>

(***************************************************************************)
(* A caller of getEmbedding.                                               *)
(***************************************************************************)
EmbIdle == embText = <<>> /\ embPc = "idle" /\ embOut = <<>>

EmbInit == embText \in Texts /\ embPc = "call" /\ embOut = <<>>

CallEmbedding ==
  /\ embPc = "call"
  /\ embOut' = getEmbedding(embText)
  /\ embPc' = "done"
  /\ UNCHANGED <<embText, cosVars, callVars, appVars, concVars, histVars, jsonVars, aiVars, procVars, agentVars, authVars, signupVars>>

(***************************************************************************)
(* A caller of safeParseJson.                                              *)
(***************************************************************************)
JsonIdle == jsonText = <<>> /\ jsonPc = "idle" /\ jsonOut = Returned(JsNull)

JsonInit == jsonText \in JsonTexts /\ jsonPc = "call" /\ jsonOut = Returned(JsNull)

CallSafeParseJson ==
  /\ jsonPc = "call"
  /\ jsonOut' = safeParseJson(jsonText)
  /\ jsonPc' = "done"
  /\ UNCHANGED <<jsonText, cosVars, embVars, callVars, appVars, concVars, histVars, aiVars, procVars, agentVars, authVars, signupVars>>

(***************************************************************************)
(* Callers of getEmbedding that share the process: each call runs to its   *)
(* return (the function is synchronous), and a caller may write into the   *)
(* array it received.                                                      *)
(***************************************************************************)
CallsInit == heap = <<>> /\ calls = <<>>

\* the earliest call with this text, or 0
FirstCallWith(text) ==
  IF \E k \in 1..Len(calls) : calls[k].text = text
  THEN CHOOSE k \in 1..Len(calls) :
         calls[k].text = text /\ \A j \in 1..(k - 1) : calls[j].text # text
  ELSE 0

\* a variant that keeps one array per text and hands it out again
getEmbeddingCallMemo(h, text) ==
  IF FirstCallWith(text) # 0
  THEN [heap |-> h, ref |-> calls[FirstCallWith(text)].ref]
  ELSE [heap |-> Append(h, getEmbedding(text)), ref |-> Len(h) + 1]

\* one call: new Array(dim) is a new array, filled and returned
getEmbeddingCall(h, text) ==
  [heap |-> Append(h, getEmbedding(text)), ref |-> Len(h) + 1]

CallGetEmbedding(text) ==
  /\ Len(calls) < MaxCalls
  /\ \E r \in {getEmbeddingCall(heap, text)} :
       /\ heap' = r.heap
       /\ calls' = Append(calls, [text |-> text, ref |-> r.ref,
                                  returned |-> r.heap[r.ref]])
  /\ UNCHANGED <<cosVars, embVars, appVars, concVars, histVars, jsonVars, aiVars, procVars, agentVars, authVars, signupVars>>

\* the caller of call k writes into the array it received
MutateReceived(k, position) ==
  /\ heap[calls[k].ref][position] # MutatedValue
  /\ heap' = [heap EXCEPT ![calls[k].ref][position] = MutatedValue]
  /\ UNCHANGED <<calls, cosVars, embVars, appVars, concVars, histVars, jsonVars, aiVars, procVars, agentVars, authVars, signupVars>>

(***************************************************************************)
(* The journal: the entries table (src/db.js), the handlers of             *)
(* src/server.js and the agent tools.  One request is answered at a time;  *)
(* last holds the answer until it is sent.                                 *)
(***************************************************************************)
\* SQL NULL in the embedding column
NULL == <<>>

\* a string is truthy unless it is missing or empty
Truthy(text) == text # <<>>

\* JSON.stringify on the way into the JSONB column and the parse on the way
\* out, for one finite number: -0 is written as 0, every other double is
\* written with the digits that read back as the same double
JsonNumber(x) == IF IsZero(x) THEN FZero(0) ELSE x

StoredJson(vector) == [i \in 1..Len(vector) |-> JsonNumber(vector[i])]

NoRequest ==
  [op |-> "none", user |-> "", status |-> 0, id |-> 0, text |-> <<>>,
   limit |-> <<>>, candidates |-> <<>>, results |-> <<>>, fetches |-> 0]

Reply(op, user, status) == [NoRequest EXCEPT !.op = op, !.user = user, !.status = status]

Found(op, user, text, limit, candidates, results) ==
  [op |-> op, user |-> user, status |-> 200, id |-> 0, text |-> text,
   limit |-> limit, candidates |-> candidates, results |-> results, fetches |-> 1]

\* most write requests in flight at once
MaxInflight == 2

NoWrite ==
  [stage |-> "idle", op |-> "none", user |-> "", id |-> 0, title |-> <<>>,
   hasContent |-> FALSE, content |-> <<>>, embedding |-> <<>>, status |-> 0]

ConcIdle == slots = [slot \in 1..MaxInflight |-> NoWrite] /\ seen = <<>>

HistIdle == deleted = {}

\* no agent endpoint is answering a request
NoResponse ==
  [op |-> "none", stage |-> "idle", user |-> "", entryId |-> 0, status |-> 0,
   headersSent |-> FALSE, ended |-> FALSE, events |-> <<>>, body |-> "none",
   full |-> <<>>, parsed |-> FALSE]

AiIdle == res = NoResponse

\* most invocations of runAgent and streamAgent in flight at once
MaxRuns == 2

\* most sessions created in one behaviour
MaxSessions == 2

AgentNames == {"mood_analyst", "coach"}

\* the model of the Groq provider, the default one
GroqModel == "llama-3.1-8b-instant"

\* `${agentName}:${model.model}`
CacheKey(agentName, model) == <<agentName, model.model>>

CacheKeys == {<<agentName, GroqModel>> : agentName \in AgentNames}

NoRunner == [cached |-> FALSE, apiKey |-> ""]

NoRun ==
  [stage |-> "idle", kind |-> "none", agent |-> "", user |-> "", apiKey |-> "",
   session |-> 0, outcome |-> "none", usedKey |-> ""]

\* no user has stored a key, nothing is cached and nothing runs
AgentsIdle ==
  /\ keys = [u \in Users |-> ""]
  /\ runnerCache = [k \in CacheKeys |-> NoRunner]
  /\ sessions = <<>>
  /\ runs = [slot \in 1..MaxRuns |-> NoRun]

\* no request is at a guarded route
NoGate ==
  [stage |-> "idle", sessionUser |-> "", bearer |-> "none", outcome |-> "none",
   status |-> 0, error |-> "", authUserId |-> ""]

\* no request is at a guarded route and Azure auth is off, the default
AuthIdle == gate = NoGate /\ azureEnabled = FALSE

\* a slot with no signup request in it
NoSignup ==
  [stage |-> "idle", email |-> "", password |-> <<>>, status |-> 0, error |-> "",
   sessionUser |-> 0, body |-> 0]

SignupIdle == users = <<>> /\ signups = [slot \in 1..MaxInflight |-> NoSignup]

\* the process is up and no fetch has failed
ProcIdle == serving = TRUE /\ failures = 0

AppInit == entries = <<>> /\ nextId = 1 /\ last = NoRequest

\* title || 'Untitled Entry'
EntryTitle(title) ==
  IF title = <<>> \/ title = <<"">> THEN "Untitled Entry" ELSE title[1]

\* the row INSERT INTO entries ... VALUES ($1, $2, $3, $4, $5) adds
InsertedRow(id, userId, title, content, embedding) ==
  [id |-> id, user_id |-> userId, title |-> title, content |-> content,
   embedding |-> StoredJson(embedding), analysis |-> NULL]

\* POST /api/entries with this body, from any signed-in user
CreateEntry(content, title) ==
  /\ last = NoRequest
  /\ nextId <= MaxEntries
  /\ IF ~Truthy(content) \/ ~Truthy(trim(content))
     THEN /\ \E u \in Users : last' = Reply("create", u, 400)
          /\ UNCHANGED <<entries, nextId>>
     ELSE \E embedding \in {getEmbedding(content)} :
          \E u \in Users :
            /\ entries' = Append(entries,
                            InsertedRow(nextId, u, EntryTitle(title),
                                        trim(content), embedding))
            /\ nextId' = nextId + 1
            /\ last' = Reply("create", u, 200)
  /\ UNCHANGED <<cosVars, embVars, callVars, concVars, histVars, jsonVars, aiVars, procVars, agentVars, authVars, signupVars>>

\* a variant of the UPDATE that sets the content and leaves the embedding to
\* a later job
UpdatedRowContentOnly(row, updates) ==
  LET withContent ==
        IF updates.hasContent THEN [row EXCEPT !.content = updates.content] ELSE row
  IN  IF updates.title # <<>> THEN [withContent EXCEPT !.title = updates.title[1]]
      ELSE withContent

\* the row UPDATE ... WHERE id = $n AND user_id = $m leaves in place of row;
\* updates.content and updates.embedding are <<>> when the body has no content
UpdatedRow(row, updates) ==
  LET withContent ==
        IF updates.hasContent
        THEN [row EXCEPT !.content = updates.content,
                         !.embedding = StoredJson(updates.embedding)]
        ELSE row
  IN  IF updates.title # <<>> THEN [withContent EXCEPT !.title = updates.title[1]]
      ELSE withContent

\* the updates object PUT /api/entries/:id builds from the body
Updates(content, title) ==
  IF Truthy(content)
  THEN [hasContent |-> TRUE, content |-> trim(content),
        embedding |-> getEmbedding(content), title |-> title]
  ELSE [hasContent |-> FALSE, content |-> <<>>, embedding |-> <<>>, title |-> title]

\* PUT /api/entries/:id with this body, from any signed-in user for any id
UpdateEntry(content, title) ==
  /\ last = NoRequest
  /\ \E updates \in {Updates(content, title)} :
     \E u \in Users, id \in 1..MaxEntries :
       IF \E i \in 1..Len(entries) : entries[i].id = id /\ entries[i].user_id = u
       THEN /\ entries' = [i \in 1..Len(entries) |->
                            IF entries[i].id = id /\ entries[i].user_id = u
                            THEN UpdatedRow(entries[i], updates)
                            ELSE entries[i]]
            /\ last' = Reply("update", u, 200)
       ELSE /\ last' = Reply("update", u, 404)
            /\ UNCHANGED entries
  /\ UNCHANGED <<nextId, cosVars, embVars, callVars, concVars, histVars, jsonVars, aiVars, procVars, agentVars, authVars, signupVars>>

\* WHERE id = $1 AND user_id = $2
IsEntryOf(u, id, row) == row.id = id /\ row.user_id = u

\* a variant of the DELETE that counts the row and leaves it in the table
KeepsRowAlways(u, id, row) == TRUE

KeepsRow(u, id, row) == ~IsEntryOf(u, id, row)

\* the rowCount of the DELETE
rowCount(u, id) ==
  LET Hit(row) == IsEntryOf(u, id, row) IN Len(SelectSeq(entries, Hit))

\* DELETE /api/entries/:id
DeleteEntry(u, id) ==
  /\ last = NoRequest
  /\ LET Keep(row) == KeepsRow(u, id, row)
         status == IF rowCount(u, id) > 0 THEN 200 ELSE 404
     IN  /\ entries' = SelectSeq(entries, Keep)
         /\ last' = [Reply("delete", u, status) EXCEPT !.id = id]
         /\ deleted' = IF status = 200 THEN deleted \cup {id} ELSE deleted
  /\ UNCHANGED <<nextId, cosVars, embVars, callVars, concVars, jsonVars, aiVars, procVars, agentVars, authVars, signupVars>>

\* the columns getEntries and getEntryById select: the embedding is not one
EntryView(row) == [id |-> row.id, title |-> row.title, content |-> row.content]

\* SELECT ... WHERE id = $1 AND user_id = $2
getEntryById(u, id) ==
  LET Hit(row) == IsEntryOf(u, id, row) IN SelectSeq(entries, Hit)

\* GET /api/entries/:id
GetEntry(u, id) ==
  /\ last = NoRequest
  /\ LET rows == getEntryById(u, id)
     IN  last' = IF rows = <<>> THEN [Reply("get", u, 404) EXCEPT !.id = id]
                 ELSE [Reply("get", u, 200) EXCEPT !.id = id,
                                                   !.results = <<EntryView(rows[1])>>]
  /\ UNCHANGED <<entries, nextId, cosVars, embVars, callVars, concVars, histVars, jsonVars, aiVars, procVars, agentVars, authVars, signupVars>>

\* SELECT ... WHERE user_id = $1 ORDER BY created_at DESC: the rows of the
\* user, the latest insert first
getEntries(u) ==
  LET Mine(row) == row.user_id = u
      rows == SelectSeq(entries, Mine)
  IN  [i \in 1..Len(rows) |-> EntryView(rows[Len(rows) + 1 - i])]

\* GET /api/entries
ListEntries(u) ==
  /\ last = NoRequest
  /\ last' = [Reply("list", u, 200) EXCEPT !.results = getEntries(u)]
  /\ UNCHANGED <<entries, nextId, cosVars, embVars, callVars, concVars, histVars, jsonVars, aiVars, procVars, agentVars, authVars, signupVars>>

\* the answer leaves; the next request is taken up
SendResponse ==
  /\ last # NoRequest
  /\ last' = NoRequest
  /\ UNCHANGED <<entries, nextId, cosVars, embVars, callVars, concVars, histVars, jsonVars, aiVars, procVars, agentVars, authVars, signupVars>>

(***************************************************************************)
(* Retrieval: every consumer scores the user's entries that have an        *)
(* embedding against the embedding of a text, keeps the scores above its   *)
(* floor, sorts them and cuts the list at its cap.                         *)
(***************************************************************************)
\* the literals 0.1 and 0.15
SearchFloor == FDiv(FromInt(1), FromInt(10))

RelatedFloor == FDiv(FromInt(15), FromInt(100))

SearchCap == 10

ReflectCap == 5

StreamReflectCap == 5

CoachCap == 3

FindRelatedDefault == 5

SearchEntriesDefault == 5

\* a variant of the WHERE clause without user_id = $1
EmbeddedOfAnyone(u, row) == row.embedding # NULL

\* a variant of the WHERE clause without embedding IS NOT NULL
OwnedBy(u, row) == row.user_id = u

HasEmbeddingOf(u, row) == row.user_id = u /\ row.embedding # NULL

\* the rows of the user that have an embedding, in table order
getEntriesWithEmbeddings(u) ==
  LET Mine(row) == HasEmbeddingOf(u, row) IN SelectSeq(entries, Mine)

\* the query names no order: the rows may come back in any
Orders(rows) ==
  LET n == Len(rows)
  IN  {[i \in 1..n |-> rows[p[i]]] :
         p \in {f \in [1..n -> 1..n] : \A i, j \in 1..n : f[i] = f[j] => i = j}}

\* entries.map(entry => ({..., similarity: cosineSimilarity(queryEmbedding,
\* entry.embedding)})); the id stays with every shape to name the candidate
ScoreRows(rows, queryEmbedding) ==
  [i \in 1..Len(rows) |->
    [id         |-> rows[i].id,
     content    |-> rows[i].content,
     similarity |-> cosineSimilarity(queryEmbedding, rows[i].embedding)]]

\* a variant of the filter that keeps a score equal to the floor
AboveFloorOrEqual(similarity, floor) == FGe(similarity, floor)

\* r.similarity > floor
AboveFloor(similarity, floor) == FGt(similarity, floor)

Filter(scored, floor) ==
  LET Keep(r) == AboveFloor(r.similarity, floor) IN SelectSeq(scored, Keep)

\* a variant of the sort that is not stable: equal scores come out in the
\* reverse of their order
SortTiesReversed(scored) ==
  LET n == Len(scored)
      Rank(i) == Cardinality({j \in 1..n : FGt(scored[j].similarity, scored[i].similarity)})
                 + Cardinality({j \in (i + 1)..n :
                                  FEq(scored[j].similarity, scored[i].similarity)})
                 + 1
      ranks == Tuple([i \in 1..n |-> Rank(i)], n)
  IN  Tuple([k \in 1..n |-> scored[CHOOSE i \in 1..n : ranks[i] = k]], n)

\* .sort((a, b) => b.similarity - a.similarity): descending, and stable
\* (the scores are past the filter, so none is NaN, and b - a is negative,
\* zero or positive as a > b, a === b or a < b)
SortBySimilarity(scored) ==
  LET n == Len(scored)
      Rank(i) == Cardinality({j \in 1..n : FGt(scored[j].similarity, scored[i].similarity)})
                 + Cardinality({j \in 1..(i - 1) :
                                  FEq(scored[j].similarity, scored[i].similarity)})
                 + 1
      ranks == Tuple([i \in 1..n |-> Rank(i)], n)
  IN  Tuple([k \in 1..n |-> scored[CHOOSE i \in 1..n : ranks[i] = k]], n)

\* .slice(0, end) for an integer end
SliceTo(seq, end) ==
  LET n == Len(seq)
      k == IF end < 0 THEN Max(n + end, 0) ELSE Min(end, n)
  IN  SubSeq(seq, 1, k)

\* a variant that cuts the list before it sorts it
RetrieveSliceBeforeSort(scored, floor, cap) ==
  SortBySimilarity(SliceTo(Filter(scored, floor), cap))

Retrieve(scored, floor, cap) == SliceTo(SortBySimilarity(Filter(scored, floor)), cap)

\* limit || 5
MaxResults(limit, default) == IF limit = <<>> \/ limit[1] = 0 THEN default ELSE limit[1]

\* POST /api/search
Search(u, query, scored) ==
  /\ last' = IF ~Truthy(query) THEN Reply("search", u, 400)
             ELSE Found("search", u, query, <<>>, scored,
                        Retrieve(scored, SearchFloor, SearchCap))
  /\ UNCHANGED <<entries, nextId, cosVars, embVars, callVars, concVars, histVars, jsonVars, aiVars, procVars, agentVars, authVars, signupVars>>

\* POST /api/reflect; the agent answers with a reflection or fails
Reflect(u, content, scored, agentOk) ==
  /\ last' = IF ~Truthy(content) THEN Reply("reflect", u, 400)
             ELSE [Found("reflect", u, content, <<>>, scored,
                         Retrieve(scored, RelatedFloor, ReflectCap))
                   EXCEPT !.status = IF agentOk THEN 200 ELSE 500]
  /\ UNCHANGED <<entries, nextId, cosVars, embVars, callVars, concVars, histVars, jsonVars, aiVars, procVars, agentVars, authVars, signupVars>>

\* POST /api/stream/reflect
StreamReflect(u, content, scored) ==
  /\ last' = IF ~Truthy(content) THEN Reply("stream_reflect", u, 400)
             ELSE Found("stream_reflect", u, content, <<>>, scored,
                        Retrieve(scored, RelatedFloor, StreamReflectCap))
  /\ UNCHANGED <<entries, nextId, cosVars, embVars, callVars, concVars, histVars, jsonVars, aiVars, procVars, agentVars, authVars, signupVars>>

\* buildCoachContextWithRAG: the entries added to the coach's context
CoachContext(u, lastUserMessage, scored) ==
  /\ last' = IF ~Truthy(lastUserMessage)
             THEN [Found("coach", u, lastUserMessage, <<>>, <<>>, <<>>)
                   EXCEPT !.fetches = 0]
             ELSE Found("coach", u, lastUserMessage, <<>>, scored,
                        Retrieve(scored, RelatedFloor, CoachCap))
  /\ UNCHANGED <<entries, nextId, cosVars, embVars, callVars, concVars, histVars, jsonVars, aiVars, procVars, agentVars, authVars, signupVars>>

\* the find_related tool
FindRelated(u, text, limit, scored) ==
  /\ last' = Found("find_related", u, text, limit, scored,
                   Retrieve(scored, RelatedFloor, MaxResults(limit, FindRelatedDefault)))
  /\ UNCHANGED <<entries, nextId, cosVars, embVars, callVars, concVars, histVars, jsonVars, aiVars, procVars, agentVars, authVars, signupVars>>

\* the search_entries tool
SearchEntries(u, query, limit, scored) ==
  /\ last' = Found("search_entries", u, query, limit, scored,
                   Retrieve(scored, RelatedFloor, MaxResults(limit, SearchEntriesDefault)))
  /\ UNCHANGED <<entries, nextId, cosVars, embVars, callVars, concVars, histVars, jsonVars, aiVars, procVars, agentVars, authVars, signupVars>>

\* a retrieval request of user u with this text: every consumer builds the
\* same scored list, so it is built once and handed to each
Consume(u, text, scored) ==
  \/ Search(u, text, scored)
  \/ \E agentOk \in BOOLEAN : Reflect(u, text, scored, agentOk)
  \/ StreamReflect(u, text, scored)
  \/ CoachContext(u, text, scored)
  \/ \E limit \in LimitInputs : FindRelated(u, text, limit, scored)
  \/ \E limit \in LimitInputs : SearchEntries(u, text, limit, scored)

Retrieval(u, text) ==
  /\ last = NoRequest
  /\ \E base \in {ScoreRows(getEntriesWithEmbeddings(u), getEmbedding(text))} :
       \E scored \in Orders(base) : Consume(u, text, scored)

\* the contents of the rows that are ranked against the query "bba": "bba",
\* " bba", the two texts above and "ab"
SampleContents ==
  <<TextBba, TextSpaceBba, TextFifteenHundredths, TextTenth, <<97, 98>>>>

\* what scoring gives a row of each content: 1, 0.7071067811865476, 0.15,
\* 0.1 and 0
SampleScores ==
  Tuple([k \in 1..Len(SampleContents) |->
           cosineSimilarity(getEmbedding(TextBba),
                            StoredJson(getEmbedding(SampleContents[k])))],
        Len(SampleContents))

\* most rows of one content in the middle of a ranked list
MaxFill == 11

\* the contents of those rows: "bba" or " bba"
FillSamples == {1, 2}

\* the contents of the rows before and after them: none or one row
EdgeSamples == {<<>>} \cup {<<k>> : k \in 1..Len(SampleContents)}

\* the scored rows of a table with these contents, in the order of the rows
ScoredSamples(samples) ==
  Tuple([i \in 1..Len(samples) |->
          [id         |-> i,
           content    |-> trim(SampleContents[samples[i]]),
           similarity |-> SampleScores[samples[i]]]],
        Len(samples))

ScoredInputs ==
  {ScoredSamples(before \o Rep(fill, n) \o after) :
     before \in EdgeSamples, after \in EdgeSamples,
     fill \in FillSamples, n \in 0..MaxFill}

\* the consumers on the scored rows of a longer table: map has run, filter,
\* sort and slice follow
Ranking(scored) ==
  /\ last = NoRequest
  /\ Consume("u1", TextBba, scored)

(***************************************************************************)
(* The endpoints that hand a text to an agent and answer with what it      *)
(* completes (src/server.js).  The agent returns a completion text or      *)
(* throws; a streaming endpoint receives the text token by token.          *)
(***************************************************************************)
\* !value for a value JSON.parse returned
JsFalsy(value) ==
  \/ value.kind = "null"
  \/ value.kind = "boolean" /\ ~value.value
  \/ value.kind = "number" /\ value.mantissa = 0
  \/ value.kind = "string" /\ value.chars = <<>>

\* Array.isArray(value)
IsArray(value) == value.kind = "array"

\* "mood", "tags", "summary"
KeyMood == <<109, 111, 111, 100>>

KeyTags == <<116, 97, 103, 115>>

KeySummary == <<115, 117, 109, 109, 97, 114, 121>>

\* value[key]; <<>> is undefined
Property(value, key) ==
  IF value.kind # "object" THEN <<>>
  ELSE LET hits == {k \in 1..Len(value.members) : value.members[k].key = key}
       IN  IF hits = {} THEN <<>>
           ELSE <<value.members[CHOOSE k \in hits : TRUE].value>>

\* { mood: analysis.mood, tags: analysis.tags, summary: analysis.summary }
AnalysisOf(value) ==
  [mood |-> Property(value, KeyMood), tags |-> Property(value, KeyTags),
   summary |-> Property(value, KeySummary)]

\* a variant of the UPDATE that also clears the embedding
AnalyzedRowClearsEmbedding(row, analysis) ==
  [row EXCEPT !.analysis = <<analysis>>, !.embedding = NULL]

\* the row UPDATE entries SET mood = $1, tags = $2, summary = $3,
\* analyzed_at = NOW() leaves in place of row
AnalyzedRow(row, analysis) == [row EXCEPT !.analysis = <<analysis>>]

\* the table after updateEntryAnalysis(userId, entryId, analysis)
updateEntryAnalysis(u, entryId, analysis) ==
  [i \in 1..Len(entries) |->
     IF IsEntryOf(u, entryId, entries[i]) THEN AnalyzedRow(entries[i], analysis)
     ELSE entries[i]]

\* the endpoints that need a content in the body, and those that build the
\* agent's text from the user's entries
ContentEndpoints == {"analyze", "clarity", "reflect"}

HistoryEndpoints ==
  {"recap", "growth_patterns", "prompts", "time_capsule", "export_summary"}

ParsingEndpoints == ContentEndpoints \cup HistoryEndpoints

StreamParsingEndpoints == {"stream_analyze", "stream_clarity", "stream_reflect"}

StreamEndpoints == StreamParsingEndpoints \cup {"stream_coach"}

\* the answers a handler may give before it calls the agent: 400 for a body
\* without what it needs, 200 with a fixed text when the user has too few
\* entries
EarlyExits(op) ==
  IF op \in ContentEndpoints \cup StreamEndpoints THEN {400}
  ELSE IF op = "time_capsule" THEN {400, 200}
  ELSE {200}

\* what the agent call gives the handler: a text, held with what
\* safeParseJson makes of it, or an exception
Completion(text) == [threw |-> FALSE, text |-> text, parsed |-> safeParseJson(text)]

RunThrew == [threw |-> TRUE, text |-> <<>>, parsed |-> Thrown]

\* res.status(status).json(...), or res.json(...) with status 200
Answered(op, u, status, body, full, parsed) ==
  [NoResponse EXCEPT !.op = op, !.user = u, !.stage = "returned",
                     !.status = status, !.headersSent = TRUE, !.ended = TRUE,
                     !.body = body, !.full = full, !.parsed = parsed]

\* the answer of a handler once the agent has returned text: the 500 of
\* if (!x), the default prompts of GET /api/prompts, or the parsed value
AnswerFor(op, u, text, value) ==
  IF op = "prompts"
  THEN IF JsFalsy(value) \/ ~IsArray(value)
       THEN Answered(op, u, 200, "defaults", text, TRUE)
       ELSE Answered(op, u, 200, "parsed", text, TRUE)
  ELSE IF JsFalsy(value) THEN Answered(op, u, 500, "error", text, TRUE)
  ELSE Answered(op, u, 200, "parsed", text, TRUE)

\* one of the endpoints that await the whole completion.  early is the
\* answer given before the agent is called, 0 when there is none; entryId is
\* 0 when the body has none; dbOk is whether the UPDATE of the analysis
\* succeeds.  Every exception ends in the handler's catch, which answers 500.
AgentEndpoint(op, u, early, entryId, run, dbOk) ==
  /\ last = NoRequest /\ res = NoResponse
  /\ IF early # 0
     THEN /\ res' = Answered(op, u, early, IF early = 200 THEN "fixed" ELSE "error",
                             <<>>, FALSE)
          /\ UNCHANGED entries
     ELSE IF run.threw
     THEN /\ res' = Answered(op, u, 500, "error", <<>>, FALSE)
          /\ UNCHANGED entries
     ELSE \E r \in {run.parsed} :
          IF r.threw
          THEN /\ res' = Answered(op, u, 500, "error", run.text, FALSE)
               /\ UNCHANGED entries
          ELSE IF op = "analyze" /\ ~JsFalsy(r.value) /\ entryId # 0
          THEN IF dbOk
               THEN /\ entries' = updateEntryAnalysis(u, entryId, AnalysisOf(r.value))
                    /\ res' = [AnswerFor(op, u, run.text, r.value)
                               EXCEPT !.entryId = entryId]
               ELSE /\ res' = [Answered(op, u, 500, "error", run.text, TRUE)
                               EXCEPT !.entryId = entryId]
                    /\ UNCHANGED entries
          ELSE /\ res' = AnswerFor(op, u, run.text, r.value)
               /\ UNCHANGED entries
  /\ UNCHANGED <<nextId, last, cosVars, embVars, callVars, concVars, histVars, jsonVars, procVars, agentVars, authVars, signupVars>>

\* a streaming endpoint up to initSSE(res): the headers are sent with status
\* 200.  early is 400 for a body without what the handler needs and 500 for
\* an exception before the headers are sent.
StreamBegin(op, u, early, entryId) ==
  /\ last = NoRequest /\ res = NoResponse
  /\ res' = IF early # 0 THEN Answered(op, u, early, "error", <<>>, FALSE)
            ELSE [NoResponse EXCEPT !.op = op, !.user = u, !.stage = "streaming",
                                    !.entryId = entryId, !.status = 200,
                                    !.headersSent = TRUE]
  /\ UNCHANGED <<entries, nextId, last, cosVars, embVars, callVars, concVars, histVars, jsonVars, procVars, agentVars, authVars, signupVars>>

\* most tokens of one streamed completion
MaxTokens == 2

\* the tokens: x, {, } and 0
StreamTokens == {<<120>>, <<123>>, <<125>>, <<48>>}

\* full += token; sse.sendToken(token)
StreamToken(token) ==
  /\ res.stage = "streaming"
  /\ Len(res.events) < MaxTokens
  /\ res' = [res EXCEPT !.full = @ \o token, !.events = Append(@, "token")]
  /\ UNCHANGED <<entries, nextId, last, cosVars, embVars, callVars, concVars, histVars, jsonVars, procVars, agentVars, authVars, signupVars>>

\* the stream throws: catch (streamErr) { sse.error('Stream failed'); return }
StreamThrow ==
  /\ res.stage = "streaming"
  /\ res' = [res EXCEPT !.stage = "returned", !.events = Append(@, "error"),
                        !.ended = TRUE]
  /\ UNCHANGED <<entries, nextId, last, cosVars, embVars, callVars, concVars, histVars, jsonVars, procVars, agentVars, authVars, signupVars>>

\* sse.sendJson(...); sse.done()
SentAndDone(response) ==
  [response EXCEPT !.stage = "returned", !.events = @ \o <<"json", "done">>,
                   !.ended = TRUE]

\* sse.done() alone
Done(response) ==
  [response EXCEPT !.stage = "returned", !.events = Append(@, "done"),
                   !.ended = TRUE]

\* the outer catch of a streaming handler once the headers are sent:
\* if (!res.headersSent) ... does nothing, and the handler returns
CaughtAfterHeaders(response) == [response EXCEPT !.stage = "returned"]

\* the stream ends: the coach sends the text; the others parse it, write
\* the analysis when there is an entryId (stream/analyze), send the parsed
\* value when it is truthy, and send [DONE]
StreamFinish(dbOk) ==
  /\ res.stage = "streaming"
  /\ IF res.op = "stream_coach"
     THEN /\ res' = SentAndDone(res)
          /\ UNCHANGED entries
     ELSE \E r \in {safeParseJson(res.full)} :
          \E parsed \in {[res EXCEPT !.parsed = TRUE]} :
          IF r.threw
          THEN /\ res' = CaughtAfterHeaders(res)
               /\ UNCHANGED entries
          ELSE IF JsFalsy(r.value)
          THEN /\ res' = Done(parsed)
               /\ UNCHANGED entries
          ELSE IF res.op = "stream_analyze" /\ res.entryId # 0
          THEN IF dbOk
               THEN /\ entries' = updateEntryAnalysis(res.user, res.entryId,
                                                      AnalysisOf(r.value))
                    /\ res' = SentAndDone(parsed)
               ELSE /\ res' = CaughtAfterHeaders(parsed)
                    /\ UNCHANGED entries
          ELSE /\ res' = SentAndDone(parsed)
               /\ UNCHANGED entries
  /\ UNCHANGED <<nextId, last, cosVars, embVars, callVars, concVars, histVars, jsonVars, procVars, agentVars, authVars, signupVars>>

\* the handler has returned; the next request is taken up
Finished ==
  /\ res.stage = "returned"
  /\ res' = NoResponse
  /\ UNCHANGED <<entries, nextId, last, cosVars, embVars, callVars, concVars, histVars, jsonVars, procVars, agentVars, authVars, signupVars>>

\* the completions of the agent: x, 0, {}, [1] and {"mood":"ok"}
MoodText == <<123, 34, 109, 111, 111, 100, 34, 58, 34, 111, 107, 34, 125>>

CompletionTexts == {<<120>>, <<48>>, <<123, 125>>, <<91, 49, 93>>, MoodText}

Runs == {RunThrew} \cup {Completion(text) : text \in CompletionTexts}

(***************************************************************************)
(* A retrieval request whose candidate fetch fails: the SELECT of          *)
(* getEntriesWithEmbeddings rejects, the await throws inside the handler's *)
(* try, and the catch answers.                                             *)
(***************************************************************************)
\* most fetch failures in one behaviour
MaxFailures == 2

\* the endpoints that fetch the candidates themselves
FetchEndpoints == {"search", "reflect", "stream_reflect", "coach"}

\* a handler without the catch: the rejection is unhandled, nothing is
\* answered and the process ends
FetchFailureUncaught(op, u, text) ==
  [reply |-> [Reply(op, u, 0) EXCEPT !.text = text, !.fetches = 1],
   serving |-> FALSE]

\* catch (error) { res.status(500).json({ error: ... }) } after the one
\* await getEntriesWithEmbeddings(...): the answer, and the process goes on
FetchFailure(op, u, text) ==
  [reply |-> [Reply(op, u, 500) EXCEPT !.text = text, !.fetches = 1],
   serving |-> TRUE]

\* a request of one of these endpoints with a text, when the fetch fails
FetchFails(op, u, text) ==
  /\ last = NoRequest
  /\ serving
  /\ failures < MaxFailures
  /\ Truthy(text)
  /\ \E outcome \in {FetchFailure(op, u, text)} :
       /\ last' = outcome.reply
       /\ serving' = outcome.serving
  /\ failures' = failures + 1
  /\ UNCHANGED <<entries, nextId, cosVars, embVars, callVars, concVars, histVars, jsonVars, aiVars, agentVars, authVars, signupVars>>

(***************************************************************************)
(* runAgent and streamAgent (src/agents/index.js) with the key resolution  *)
(* of the endpoints that call them.  Invocations overlap: each runs to its *)
(* await of the agent's run and goes on when the run ends.                 *)
(***************************************************************************)
\* process.env.GROQ_API_KEY
EnvKey == "env-key"

\* the keys a user stores with POST /api/settings/api-key
StoredKeys == {"key-1", "key-2"}

\* userKey || process.env.GROQ_API_KEY || ''
resolveApiKey(u) == IF keys[u] # "" THEN keys[u] ELSE EnvKey

\* getModel('groq', apiKey): new GroqLlm({ model, apiKey })
getModel(apiKey) == [model |-> GroqModel, apiKey |-> apiKey]

\* the Map after getRunner(agentName, model): a runner around the agent
\* built with this model is put in when the key has none
CacheAfterGetRunner(agentName, model) ==
  LET cacheKey == CacheKey(agentName, model)
  IN  IF runnerCache[cacheKey].cached THEN runnerCache
      ELSE [runnerCache EXCEPT ![cacheKey] = [cached |-> TRUE, apiKey |-> model.apiKey]]

\* POST /api/settings/api-key
SetUserApiKey(u, apiKey) ==
  /\ keys[u] # apiKey
  /\ keys' = [keys EXCEPT ![u] = apiKey]
  /\ UNCHANGED <<runnerCache, sessions, runs, cosVars, embVars, callVars, appVars, concVars, histVars, jsonVars, aiVars, procVars, authVars, signupVars>>

\* an endpoint resolves the key of its user and calls runAgent (kind
\* "run") or streamAgent (kind "stream"), which gets the model, gets the
\* runner and creates the session
BeginAgent(slot, kind, agentName, u) ==
  /\ runs[slot] = NoRun
  /\ Len(sessions) < MaxSessions
  /\ \E model \in {getModel(resolveApiKey(u))} :
       /\ runnerCache' = CacheAfterGetRunner(agentName, model)
       /\ sessions' = Append(sessions, [runner |-> CacheKey(agentName, model),
                                        user |-> u, live |-> TRUE])
       /\ runs' = [runs EXCEPT ![slot] =
                     [NoRun EXCEPT !.stage = "running", !.kind = kind,
                                   !.agent = agentName, !.user = u,
                                   !.apiKey = model.apiKey,
                                   !.session = Len(sessions) + 1]]
  /\ UNCHANGED <<keys, cosVars, embVars, callVars, appVars, concVars, histVars, jsonVars, aiVars, procVars, authVars, signupVars>>

\* the key the run of this invocation calls the LLM with: the one of the
\* model of the cached runner's agent (GroqLlm: new Groq({ apiKey:
\* this.apiKey }))
KeyOfRunner(run) == runnerCache[<<run.agent, GroqModel>>].apiKey

\* the run ends, the loop is left, deleteSession runs and the function
\* returns
AgentReturns(slot) ==
  /\ runs[slot].stage = "running"
  /\ sessions' = [sessions EXCEPT ![runs[slot].session].live = FALSE]
  /\ runs' = [runs EXCEPT ![slot].stage = "ended", ![slot].outcome = "returned",
                          ![slot].usedKey = KeyOfRunner(runs[slot])]
  /\ UNCHANGED <<keys, runnerCache, cosVars, embVars, callVars, appVars, concVars, histVars, jsonVars, aiVars, procVars, authVars, signupVars>>

\* the run throws (the LLM call fails): the exception leaves the function
\* from inside the loop, before deleteSession
AgentThrows(slot) ==
  /\ runs[slot].stage = "running"
  /\ runs' = [runs EXCEPT ![slot].stage = "ended", ![slot].outcome = "threw",
                          ![slot].usedKey = KeyOfRunner(runs[slot])]
  /\ UNCHANGED <<keys, runnerCache, sessions, cosVars, embVars, callVars, appVars, concVars, histVars, jsonVars, aiVars, procVars, authVars, signupVars>>

\* the consumer of streamAgent leaves its loop early: the generator is
\* returned at its yield and nothing after its loop runs
ConsumerStops(slot) ==
  /\ runs[slot].stage = "running"
  /\ runs[slot].kind = "stream"
  /\ runs' = [runs EXCEPT ![slot].stage = "ended", ![slot].outcome = "stopped",
                          ![slot].usedKey = KeyOfRunner(runs[slot])]
  /\ UNCHANGED <<keys, runnerCache, sessions, cosVars, embVars, callVars, appVars, concVars, histVars, jsonVars, aiVars, procVars, authVars, signupVars>>

\* the endpoint has answered; the slot takes the next invocation
AgentForgotten(slot) ==
  /\ runs[slot].stage = "ended"
  /\ runs' = [runs EXCEPT ![slot] = NoRun]
  /\ UNCHANGED <<keys, runnerCache, sessions, cosVars, embVars, callVars, appVars, concVars, histVars, jsonVars, aiVars, procVars, authVars, signupVars>>

(***************************************************************************)
(* The middleware before a guarded route: azureAuthMiddleware              *)
(* (src/microsoft/auth.js), installed when Azure auth is enabled, and      *)
(* requireAuth (src/server.js).  A request carries a session with or       *)
(* without a userId and an Authorization header with no Bearer token, one  *)
(* that fails validation, or a valid one.                                  *)
(***************************************************************************)
Bearers == {"none", "invalid", "valid"}

\* the local user the valid token's oid resolves to
AzureLocalUser == "u2"

\* res.status(status).json({ error }) from a middleware: the chain stops
TurnedAway(request, status, error) ==
  [request EXCEPT !.stage = "decided", !.outcome = "answered", !.status = status,
                  !.error = error]

\* req.authUserId = userId; next()
Admitted(request, userId) ==
  [request EXCEPT !.stage = "decided", !.outcome = "next", !.authUserId = userId]

\* a requireAuth that lets a request without credentials through
requireAuthAdmitsAnyone(request, azureUser, resolveOk) ==
  IF request.sessionUser # "" THEN Admitted(request, request.sessionUser)
  ELSE IF azureUser
  THEN IF resolveOk THEN Admitted(request, AzureLocalUser)
       ELSE TurnedAway(request, 500, "Failed to resolve Azure user")
  ELSE Admitted(request, "u1")

\* requireAuth; azureUser is whether req.azureUser is set, resolveOk whether
\* resolveAzureUserToLocal returns
requireAuth(request, azureUser, resolveOk) ==
  IF request.sessionUser # "" THEN Admitted(request, request.sessionUser)
  ELSE IF azureUser
  THEN IF resolveOk THEN Admitted(request, AzureLocalUser)
       ELSE TurnedAway(request, 500, "Failed to resolve Azure user")
  ELSE TurnedAway(request, 401, "Not authenticated")

\* the chain before the handler: azureAuthMiddleware when it is installed,
\* then requireAuth
Middleware(request, resolveOk) ==
  IF azureEnabled /\ request.bearer = "invalid"
  THEN TurnedAway(request, 401, "Invalid or expired Azure AD token")
  ELSE requireAuth(request, azureEnabled /\ request.bearer = "valid", resolveOk)

\* a request reaches a guarded route
Arrive(sessionUser, bearer, resolveOk) ==
  /\ gate = NoGate /\ last = NoRequest
  /\ gate' = Middleware([NoGate EXCEPT !.sessionUser = sessionUser,
                                      !.bearer = bearer], resolveOk)
  /\ UNCHANGED <<azureEnabled, cosVars, embVars, callVars, appVars, concVars, histVars, jsonVars, aiVars, procVars, agentVars, signupVars>>

\* next() was called: the handler of the route runs for req.authUserId
HandlerRuns ==
  /\ gate.outcome = "next"
  /\ \/ \E title \in TitleInputs : CreateEntry(TextSpaceBba, title)
     \/ \E u \in Users : ListEntries(u)
     \/ \E u \in Users, id \in 1..MaxEntries : DeleteEntry(u, id)
  /\ last'.user = gate.authUserId

\* the response has left, from the handler or from the middleware
Responded ==
  /\ gate.stage = "decided"
  /\ gate.outcome = "next" => last # NoRequest
  /\ gate' = NoGate
  /\ last' = NoRequest
  /\ UNCHANGED <<entries, nextId, azureEnabled, cosVars, embVars, callVars, concVars, histVars, jsonVars, aiVars, procVars, agentVars, signupVars>>

(***************************************************************************)
(* POST /api/auth/signup (src/server.js) over the table users (src/db.js). *)
(* The handler awaits findUserByEmail, then bcrypt.hash, then createUser;  *)
(* other requests run between the awaits.  users.email is UNIQUE, so an    *)
(* INSERT of an email that a row holds already is rejected by the          *)
(* database and createUser throws.                                         *)
(***************************************************************************)
Emails == {"", "ann@example.com", "bob@example.com"}

Passwords == {<<>>, <<49, 50, 51>>, <<49, 50, 51, 52, 53, 54>>, <<54, 53, 52, 51, 50, 49>>}

MinPasswordLength == 6

\* email.split('@')[0]
LocalPart(email) ==
  CASE email = "ann@example.com" -> "ann"
    [] email = "bob@example.com" -> "bob"
    [] OTHER -> email

\* bcrypt.hash(password, 10)
Hashed(password) == [bcrypt |-> password]

\* SELECT * FROM users WHERE email = $1; rows[0] || null
findUserByEmail(email) ==
  LET rows == SelectSeq(users, LAMBDA row : row.email = email)
  IN IF rows = <<>> THEN NULL ELSE rows[1]

\* the UNIQUE constraint on users.email lets the INSERT through
EmailFree(email) == \A i \in 1..Len(users) : users[i].email # email

\* the row createUser inserts
UserRow(id, email, password) ==
  [id |-> id, email |-> email, name |-> LocalPart(email), password |-> Hashed(password)]

\* res.status(status).json({ error })
SignupRefused(request, status, error) ==
  [request EXCEPT !.stage = "answered", !.status = status, !.error = error]

\* the request arrives: validation, then the call of findUserByEmail
SignupBegin(slot, email, password) ==
  /\ signups[slot] = NoSignup
  /\ LET request == [NoSignup EXCEPT !.email = email, !.password = password]
     IN signups' = [signups EXCEPT ![slot] =
          IF email = "" \/ password = <<>>
          THEN SignupRefused(request, 400, "Email and password are required")
          ELSE IF Len(password) < MinPasswordLength
          THEN SignupRefused(request, 400, "Password must be at least 6 characters")
          ELSE [request EXCEPT !.stage = "checking"]]
  /\ UNCHANGED <<users, cosVars, embVars, callVars, appVars, concVars, histVars, jsonVars, aiVars, procVars, agentVars, authVars>>

\* findUserByEmail has answered
SignupChecked(slot) ==
  /\ signups[slot].stage = "checking"
  /\ signups' = [signups EXCEPT ![slot] =
       IF findUserByEmail(@.email) # NULL
       THEN SignupRefused(@, 400, "Email already exists")
       ELSE [@ EXCEPT !.stage = "inserting"]]
  /\ UNCHANGED <<users, cosVars, embVars, callVars, appVars, concVars, histVars, jsonVars, aiVars, procVars, agentVars, authVars>>

\* bcrypt.hash has answered and createUser runs its INSERT: the row is
\* added and the session established, or the INSERT is rejected and the
\* catch answers
SignupInsert(slot) ==
  /\ signups[slot].stage = "inserting"
  /\ LET request == signups[slot]
         user == UserRow(Len(users) + 1, request.email, request.password)
     IN IF EmailFree(request.email)
        THEN /\ users' = Append(users, user)
             /\ signups' = [signups EXCEPT ![slot] =
                  [request EXCEPT !.stage = "answered", !.status = 200,
                                  !.sessionUser = user.id, !.body = user.id]]
        ELSE /\ users' = users
             /\ signups' = [signups EXCEPT ![slot] =
                  SignupRefused(request, 500, "Server error")]
  /\ UNCHANGED <<cosVars, embVars, callVars, appVars, concVars, histVars, jsonVars, aiVars, procVars, agentVars, authVars>>

\* the response has left
SignupDone(slot) ==
  /\ signups[slot].stage = "answered"
  /\ signups' = [signups EXCEPT ![slot] = NoSignup]
  /\ UNCHANGED <<users, cosVars, embVars, callVars, appVars, concVars, histVars, jsonVars, aiVars, procVars, agentVars, authVars>>

(***************************************************************************)
(* Specifications.                                                         *)
(***************************************************************************)
Init == AppInit /\ CosIdle /\ EmbIdle /\ CallsInit /\ ConcIdle /\ HistIdle /\ JsonIdle /\ AiIdle /\ ProcIdle /\ AgentsIdle /\ AuthIdle /\ SignupIdle

Next ==
  \/ \E content \in ContentInputs, title \in TitleInputs : CreateEntry(content, title)
  \/ \E content \in ContentInputs, title \in TitleInputs : UpdateEntry(content, title)
  \/ \E u \in Users, id \in 1..MaxEntries : DeleteEntry(u, id)
  \/ \E u \in Users, id \in 1..MaxEntries : GetEntry(u, id)
  \/ \E u \in Users : ListEntries(u)
  \/ \E u \in Users, text \in QueryInputs : Retrieval(u, text)
  \/ SendResponse

Spec == Init /\ [][Next]_vars

(***************************************************************************)
(* The callers of the two functions alone.                                 *)
(***************************************************************************)
InitCalls == CallsInit /\ CosIdle /\ EmbIdle /\ AppInit /\ ConcIdle /\ HistIdle /\ JsonIdle /\ AiIdle /\ ProcIdle /\ AgentsIdle /\ AuthIdle /\ SignupIdle

NextCalls ==
  \/ \E text \in CallTexts : CallGetEmbedding(text)
  \/ \E k \in 1..Len(calls), position \in MutatedPositions : MutateReceived(k, position)

SpecCalls == InitCalls /\ [][NextCalls]_vars

InitCosine == CosInit /\ EmbIdle /\ CallsInit /\ AppInit /\ ConcIdle /\ HistIdle /\ JsonIdle /\ AiIdle /\ ProcIdle /\ AgentsIdle /\ AuthIdle /\ SignupIdle

NextCosine == CallCosine

SpecCosine == InitCosine /\ [][NextCosine]_vars

InitEmbed == EmbInit /\ CosIdle /\ CallsInit /\ AppInit /\ ConcIdle /\ HistIdle /\ JsonIdle /\ AiIdle /\ ProcIdle /\ AgentsIdle /\ AuthIdle /\ SignupIdle

NextEmbed == CallEmbedding

SpecEmbed == InitEmbed /\ [][NextEmbed]_vars

(***************************************************************************)
(* The caller of safeParseJson alone.                                      *)
(***************************************************************************)
InitJson ==
  JsonInit /\ CosIdle /\ EmbIdle /\ CallsInit /\ AppInit /\ ConcIdle /\ HistIdle /\ AiIdle
  /\ ProcIdle /\ AgentsIdle /\ AuthIdle /\ SignupIdle

NextJson == CallSafeParseJson

SpecJson == InitJson /\ [][NextJson]_vars

(***************************************************************************)
(* The consumers on scored rows of tables of up to MaxFill + 2 rows.       *)
(***************************************************************************)
InitRank == Init

NextRank ==
  \/ \E scored \in ScoredInputs : Ranking(scored)
  \/ SendResponse

SpecRank == InitRank /\ [][NextRank]_vars

(***************************************************************************)
(* Overlapping requests.  A handler runs to its await and goes on after    *)
(* it: a write request computes what it will write, its one INSERT or      *)
(* UPDATE runs at some later moment, and its response is sent after that.  *)
(* Other requests run in between.                                          *)
(***************************************************************************)
\* POST /api/entries up to await dbCreateEntry(...); a request without
\* content is answered 400 at once and leaves nothing behind
BeginCreate(slot, u, content, title) ==
  /\ slots[slot] = NoWrite
  /\ nextId <= MaxEntries
  /\ Truthy(content) /\ Truthy(trim(content))
  /\ \E embedding \in {getEmbedding(content)} :
       slots' = [slots EXCEPT ![slot] =
                   [NoWrite EXCEPT !.stage = "computed", !.op = "create",
                                   !.user = u, !.id = nextId,
                                   !.title = <<EntryTitle(title)>>,
                                   !.hasContent = TRUE,
                                   !.content = trim(content),
                                   !.embedding = embedding]]
  /\ nextId' = nextId + 1
  /\ UNCHANGED <<entries, last, seen, cosVars, embVars, callVars, histVars, jsonVars, aiVars, procVars, agentVars, authVars, signupVars>>

\* PUT /api/entries/:id up to await dbUpdateEntry(...)
BeginUpdate(slot, u, content, title) ==
  /\ slots[slot] = NoWrite
  /\ \E updates \in {Updates(content, title)} :
     \E id \in 1..MaxEntries :
       slots' = [slots EXCEPT ![slot] =
                   [NoWrite EXCEPT !.stage = "computed", !.op = "update",
                                   !.user = u, !.id = id,
                                   !.title = updates.title,
                                   !.hasContent = updates.hasContent,
                                   !.content = updates.content,
                                   !.embedding = updates.embedding]]
  /\ UNCHANGED <<entries, nextId, last, seen, cosVars, embVars, callVars, histVars, jsonVars, aiVars, procVars, agentVars, authVars, signupVars>>

\* the statement of the request runs: one INSERT, or one UPDATE
ApplyWrite(slot) ==
  LET w == slots[slot]
      hit == \E i \in 1..Len(entries) : entries[i].id = w.id /\ entries[i].user_id = w.user
  IN  /\ w.stage = "computed"
      /\ entries' =
           IF w.op = "create"
           THEN Append(entries, InsertedRow(w.id, w.user, w.title[1], w.content, w.embedding))
           ELSE [i \in 1..Len(entries) |->
                   IF entries[i].id = w.id /\ entries[i].user_id = w.user
                   THEN UpdatedRow(entries[i], w) ELSE entries[i]]
      /\ slots' = [slots EXCEPT ![slot].stage = "applied",
                                ![slot].status = IF w.op = "create" \/ hit THEN 200 ELSE 404]
      /\ UNCHANGED <<nextId, last, seen, cosVars, embVars, callVars, histVars, jsonVars, aiVars, procVars, agentVars, authVars, signupVars>>

\* res.json({ entry }), or the 404
Acknowledge(slot) ==
  /\ slots[slot].stage = "applied"
  /\ slots' = [slots EXCEPT ![slot] = NoWrite]
  /\ UNCHANGED <<entries, nextId, last, seen, cosVars, embVars, callVars, histVars, jsonVars, aiVars, procVars, agentVars, authVars, signupVars>>

\* a reader's SELECT of the rows of u, at any moment
Read(u) ==
  /\ seen' = SelectSeq(entries, LAMBDA row : row.user_id = u)
  /\ seen' # seen
  /\ UNCHANGED <<entries, nextId, last, slots, cosVars, embVars, callVars, histVars, jsonVars, aiVars, procVars, agentVars, authVars, signupVars>>

\* the overlapping requests are those of one user, with one of two contents
OverlapUsers == {"u1"}

OverlapContents == {TextSpaceBba, TextTenth}

InitConcurrent == Init

NextConcurrent ==
  \/ \E slot \in 1..MaxInflight, u \in OverlapUsers, content \in OverlapContents,
        title \in TitleInputs : BeginCreate(slot, u, content, title)
  \/ \E slot \in 1..MaxInflight, u \in OverlapUsers, content \in OverlapContents,
        title \in TitleInputs : BeginUpdate(slot, u, content, title)
  \/ \E slot \in 1..MaxInflight : ApplyWrite(slot)
  \/ \E slot \in 1..MaxInflight : Acknowledge(slot)
  \/ \E u \in OverlapUsers : Read(u)

SpecConcurrent == InitConcurrent /\ [][NextConcurrent]_vars

(***************************************************************************)
(* The write requests alone, one at a time, with a content that is         *)
(* missing, blank or text, and with or without a title.                    *)
(***************************************************************************)
InitWrites == Init

\* the agent throws, or completes with x or with {"mood":"ok"}
WriteRuns == {RunThrew, Completion(<<120>>), Completion(MoodText)}

NextWrites ==
  \/ /\ res = NoResponse
     /\ \E content \in CreateContents, title \in TitleInputs : CreateEntry(content, title)
  \/ /\ res = NoResponse
     /\ \E content \in UpdateContents, title \in WriteTitles : UpdateEntry(content, title)
  \/ SendResponse
  \/ \E u \in Users, entryId \in 0..MaxEntries, run \in WriteRuns, dbOk \in BOOLEAN :
       AgentEndpoint("analyze", u, 0, entryId, run, dbOk)
  \/ Finished

SpecWrites == InitWrites /\ [][NextWrites]_vars

(***************************************************************************)
(* The agent endpoints alone, one request at a time.                       *)
(***************************************************************************)
InitAi == Init

NextAi ==
  \/ \E op \in ParsingEndpoints, entryId \in 0..1, run \in Runs, dbOk \in BOOLEAN :
     \E early \in {0} \cup EarlyExits(op) :
       AgentEndpoint(op, "u1", early, entryId, run, dbOk)
  \/ \E op \in StreamEndpoints, early \in {0, 400, 500}, entryId \in 0..1 :
       StreamBegin(op, "u1", early, entryId)
  \/ \E token \in StreamTokens : StreamToken(token)
  \/ StreamThrow
  \/ \E dbOk \in BOOLEAN : StreamFinish(dbOk)
  \/ Finished

SpecAi == InitAi /\ [][NextAi]_vars

\* the agent's stream does not stay open for ever: for await leaves its
\* loop, by the end of the stream or by an exception
StreamEnds == StreamThrow \/ \E dbOk \in BOOLEAN : StreamFinish(dbOk)

SpecAiFair == SpecAi /\ WF_vars(StreamEnds)

(***************************************************************************)
(* Retrieval with a query of fewer than three kept characters, over the    *)
(* entries created before it.                                              *)
(***************************************************************************)
\* "hi" and "!!"
ShortQueries == {<<104, 105>>, <<33, 33>>}

InitShortQuery == Init

NextShortQuery ==
  \/ \E content \in {TextSpaceBba, TextTenth}, title \in TitleInputs :
       CreateEntry(content, title)
  \/ \E u \in Users, text \in ShortQueries : Retrieval(u, text)
  \/ SendResponse

SpecShortQuery == InitShortQuery /\ [][NextShortQuery]_vars

(***************************************************************************)
(* Retrieval requests whose fetch succeeds or fails, while the process is  *)
(* up.                                                                     *)
(***************************************************************************)
InitFetch == Init

NextFetch ==
  \/ /\ serving
     /\ \E title \in TitleInputs : CreateEntry(TextSpaceBba, title)
  \/ /\ serving
     /\ \E u \in Users : Retrieval(u, TextBba)
  \/ \E op \in FetchEndpoints, u \in Users : FetchFails(op, u, TextBba)
  \/ SendResponse

SpecFetch == InitFetch /\ [][NextFetch]_vars

(***************************************************************************)
(* The agent invocations of two users who store and change their keys.     *)
(***************************************************************************)
InitAgents == Init

NextAgents ==
  \/ \E u \in Users, apiKey \in StoredKeys : SetUserApiKey(u, apiKey)
  \/ \E slot \in 1..MaxRuns, kind \in {"run", "stream"}, agentName \in AgentNames,
        u \in Users : BeginAgent(slot, kind, agentName, u)
  \/ \E slot \in 1..MaxRuns : AgentReturns(slot)
  \/ \E slot \in 1..MaxRuns : AgentThrows(slot)
  \/ \E slot \in 1..MaxRuns : ConsumerStops(slot)
  \/ \E slot \in 1..MaxRuns : AgentForgotten(slot)

SpecAgents == InitAgents /\ [][NextAgents]_vars

(***************************************************************************)
(* Signup requests, overlapping.                                           *)
(***************************************************************************)
InitSignup == Init

NextSignup ==
  \/ \E slot \in 1..MaxInflight, email \in Emails, password \in Passwords :
       SignupBegin(slot, email, password)
  \/ \E slot \in 1..MaxInflight : SignupChecked(slot)
  \/ \E slot \in 1..MaxInflight : SignupInsert(slot)
  \/ \E slot \in 1..MaxInflight : SignupDone(slot)

SpecSignup == InitSignup /\ [][NextSignup]_vars

(***************************************************************************)
(* Requests at the guarded routes of the journal, with Azure auth on or    *)
(* off.                                                                    *)
(***************************************************************************)
InitAuth ==
  /\ gate = NoGate /\ azureEnabled \in BOOLEAN
  /\ AppInit /\ CosIdle /\ EmbIdle /\ CallsInit /\ ConcIdle /\ HistIdle /\ JsonIdle
  /\ AiIdle /\ ProcIdle /\ AgentsIdle /\ SignupIdle

NextAuth ==
  \/ \E sessionUser \in {""} \cup Users, bearer \in Bearers, resolveOk \in BOOLEAN :
       Arrive(sessionUser, bearer, resolveOk)
  \/ HandlerRuns
  \/ Responded

SpecAuth == InitAuth /\ [][NextAuth]_vars

(***************************************************************************)
(* The journal over a table that exists already (CREATE TABLE IF NOT       *)
(* EXISTS): the embedding column is nullable, and a row written by         *)
(* anything but the handlers above may hold NULL in it.                    *)
(***************************************************************************)
\* the rows such a table may hold: "bba" of user u1, embedded or not
ExistingRows ==
  {[id |-> 0, user_id |-> "u1", title |-> "Untitled Entry", content |-> TextBba,
    embedding |-> e, analysis |-> NULL] :
     e \in {NULL, StoredJson(getEmbedding(TextBba))}}

ExistingTables ==
  UNION {{[i \in 1..n |-> [rows[i] EXCEPT !.id = i]] : rows \in [1..n -> ExistingRows]} :
           n \in 0..MaxEntries}

InitExisting ==
  /\ entries \in ExistingTables
  /\ nextId = Len(entries) + 1
  /\ last = NoRequest
  /\ CosIdle /\ EmbIdle /\ CallsInit /\ ConcIdle /\ HistIdle /\ JsonIdle /\ AiIdle /\ ProcIdle /\ AgentsIdle /\ AuthIdle /\ SignupIdle

NextExisting ==
  \/ \E content \in ContentInputs, title \in TitleInputs : UpdateEntry(content, title)
  \/ \E u \in Users, text \in QueryInputs : Retrieval(u, text)
  \/ SendResponse

SpecExisting == InitExisting /\ [][NextExisting]_vars

(***************************************************************************)
(* Properties of cosineSimilarity, under SpecCosine.                       *)
(***************************************************************************)
One == FromInt(1)

\* 2^-50 and 2^-30
Eps50 == Canon(0, <<1>>, -50)

Eps30 == Canon(0, <<1>>, -30)

AllZero(v) == \A i \in 1..Len(v) : IsZero(v[i])

NonNegative(v) == \A i \in 1..Len(v) : FGe(v[i], FZero(0))

\* every component of v is zero or of magnitude between 2^-500 and 2^500
Moderate(v) ==
  \A i \in 1..Len(v) :
    \/ IsZero(v[i])
    \/ /\ IsFinite(v[i])
       /\ FGe(FAbs(v[i]), Canon(0, <<1>>, -500))
       /\ FLe(FAbs(v[i]), Canon(0, <<1>>, 500))

\* lo <= x <= hi, false when x is NaN
Between(x, lo, hi) == FGe(x, lo) /\ FLe(x, hi)

\* C5: whenever the two vectors differ in length, cosineSimilarity returns 0,
\* whatever they hold.
C5_LengthMismatchReturnsZero ==
  (cosPc = "done" /\ Len(cosA) # Len(cosB)) =>
    (cosOut = FZero(0) /\ cosRev = FZero(0))

C5_Witness ==
  /\ cosPc = "done" /\ Len(cosA) = 1 /\ Len(cosB) = 2
  /\ ~AllZero(cosA) /\ ~AllZero(cosB) /\ cosA[1] = cosB[1]
  /\ cosOut = FZero(0)

\* C6: with equal lengths, whenever a or b is all zeros the result is 0 and
\* never NaN.
C6_ZeroVectorReturnsZero ==
  (cosPc = "done" /\ Len(cosA) = Len(cosB) /\ (AllZero(cosA) \/ AllZero(cosB))) =>
    (~IsNaN(cosOut) /\ FEq(cosOut, FZero(0)))

\* the zero vector against a vector whose squared norm overflows: 0 * Infinity
\* is NaN, NaN === 0 is false, and 0 / NaN is returned
C6_Witness ==
  /\ cosPc = "done" /\ cosA = <<FromInt(0)>> /\ cosB = <<Huge>>
  /\ IsNaN(cosOut)

\* C7: cos(v, v) is 1 for every v with a nonzero component.
C7_SelfSimilarityExactlyOne ==
  (cosPc = "done" /\ cosA = cosB /\ ~AllZero(cosA)) => cosOut = One

\* a v whose squared norm overflows: Infinity / Infinity is returned
C7_Witness ==
  /\ cosPc = "done" /\ cosA = <<Huge>> /\ cosB = <<Huge>>
  /\ IsNaN(cosOut)

\* C7 short of overflow: for a v of moderate magnitude with a nonzero
\* component, cos(v, v) is within 2^-50 of 1, and not always 1.
C7_SelfSimilarityNearOne ==
  (cosPc = "done" /\ cosA = cosB /\ ~AllZero(cosA) /\ Moderate(cosA)) =>
    Between(cosOut, FSub(One, Eps50), FAdd(One, Eps50))

C7_NearOneWitness ==
  /\ cosPc = "done" /\ cosA = cosB /\ Moderate(cosA)
  /\ FLt(cosOut, One)
  /\ FGe(cosOut, FSub(One, Eps50))

C9_RangeExact ==
  (cosPc = "done" /\ Len(cosA) = Len(cosB)) =>
    /\ Between(cosOut, FNeg(One), One)
    /\ (NonNegative(cosA) /\ NonNegative(cosB)) => Between(cosOut, FZero(0), One)

\* two equal vectors without a negative component score above 1
C9_Witness ==
  /\ cosPc = "done" /\ cosA = <<FromInt(3), FromInt(3)>> /\ cosB = cosA
  /\ FGt(cosOut, One)

\* C9 short of overflow: with equal lengths and moderate magnitudes the
\* result lies in [-1 - 2^-30, 1 + 2^-30], and in [0, 1 + 2^-30] when no
\* component is negative.
C9_RangeWithinRounding ==
  (cosPc = "done" /\ Len(cosA) = Len(cosB) /\ Moderate(cosA) /\ Moderate(cosB)) =>
    /\ Between(cosOut, FNeg(FAdd(One, Eps30)), FAdd(One, Eps30))
    /\ (NonNegative(cosA) /\ NonNegative(cosB)) =>
         Between(cosOut, FZero(0), FAdd(One, Eps30))

C9_WithinRoundingWitness ==
  /\ cosPc = "done" /\ Len(cosA) = Len(cosB) /\ Moderate(cosA) /\ Moderate(cosB)
  /\ FGt(cosOut, One)
  /\ FLe(cosOut, FAdd(One, Eps30))

(***************************************************************************)
(* Properties of getEmbedding, under SpecEmbed and SpecCalls.              *)
(***************************************************************************)
\* letters of either case, digits and the space, on the text as given
LetterDigitSpace(c) ==
  (c >= 65 /\ c <= 90) \/ (c >= 97 /\ c <= 122) \/ (c >= 48 /\ c <= 57) \/ c = 32

KeptCount(text) == Cardinality({i \in 1..Len(text) : LetterDigitSpace(text[i])})

ZeroVector == [p \in 1..dim |-> FZero(0)]

\* 1 at index 288, where the trigram of three spaces falls, and 0 elsewhere
ThreeSpacesVector == [p \in 1..dim |-> IF p = 289 THEN One ELSE FZero(0)]

\* the sum of the squares of the components, added in index order
SquaredNorm(v) == Dot(v, v)

Eps20 == Canon(0, <<1>>, -20)

NearOne(x) == Between(x, FSub(One, Eps20), FAdd(One, Eps20))

C3_UnitNormWhenNormalizedNonEmpty ==
  (embPc = "done" /\ KeptCount(embText) > 0) => NearOne(SquaredNorm(embOut))

\* C3 amended: whenever the normalized text has at least three characters
\* the squared components sum to 1 within 2^-20; with fewer the vector is
\* all zeros.
C3_UnitNormFromThreeCharacters ==
  embPc = "done" =>
    IF KeptCount(embText) >= 3 THEN NearOne(SquaredNorm(embOut))
    ELSE IsZero(SquaredNorm(embOut))

C3_Witness ==
  /\ embPc = "done" /\ KeptCount(embText) = 4
  /\ SquaredNorm(embOut) # One
  /\ NearOne(SquaredNorm(embOut))

\* C4: two calls of getEmbedding with the same text return vectors with the
\* same 384 components, whatever calls came between them and whatever the
\* callers wrote into the vectors they had received.
C4_SameTextSameVector ==
  \A i, j \in 1..Len(calls) :
    /\ Len(calls[i].returned) = dim
    /\ calls[i].text = calls[j].text => calls[i].returned = calls[j].returned

C4_Witness ==
  /\ Len(calls) = 3
  /\ calls[1].text = calls[3].text /\ calls[1].text # calls[2].text
  /\ calls[1].returned # ZeroVector
  /\ heap[calls[1].ref] # calls[1].returned
  /\ heap[calls[3].ref] = calls[3].returned
  /\ calls[3].returned = calls[1].returned

(***************************************************************************)
(* Claims about the entries table and the retrieval consumers.            *)
(***************************************************************************)
\* C1: after any sequence of create and update requests, every stored entry
\* with an embedding holds the embedding of its stored content.
C1_EmbeddingOfStoredContent ==
  \A i \in 1..Len(entries) :
    entries[i].embedding # NULL =>
      entries[i].embedding = StoredJson(getEmbedding(entries[i].content))

\* an entry created from " bba": the content is stored trimmed, the embedding
\* is the one of the text as sent
C1_Witness ==
  /\ Len(entries) = 1 /\ last.op = "create" /\ last.status = 200
  /\ entries[1].content = TextBba
  /\ entries[1].embedding = StoredJson(getEmbedding(TextSpaceBba))
  /\ entries[1].embedding # StoredJson(getEmbedding(TextBba))

RetrievalOps ==
  {"search", "reflect", "stream_reflect", "coach", "find_related", "search_entries"}

\* the doubles 0.1 and 0.15
Tenth == FDiv(FromInt(1), FromInt(10))

FifteenHundredths == FDiv(FromInt(15), FromInt(100))

\* the floor the claim gives each consumer
ClaimedFloor(op) == IF op = "search" THEN Tenth ELSE FifteenHundredths

\* the most results the consumer returns for this request
CapOf(request) ==
  CASE request.op = "search"         -> SearchCap
    [] request.op = "reflect"        -> ReflectCap
    [] request.op = "stream_reflect" -> StreamReflectCap
    [] request.op = "coach"          -> CoachCap
    [] request.op = "find_related"   -> MaxResults(request.limit, FindRelatedDefault)
    [] request.op = "search_entries" -> MaxResults(request.limit, SearchEntriesDefault)

Ids(seq) == {seq[i].id : i \in 1..Len(seq)}

\* C10: every result of a retrieval consumer scores strictly above the
\* consumer's floor (0.1 for search, 0.15 for the others), a candidate that
\* scores exactly the floor is not returned, and when no more candidates
\* than the cap score above the floor all of them are returned.
C10_ResultsStrictlyAboveFloor ==
  (last.op \in RetrievalOps /\ last.status \in {200, 500}) =>
    LET floor == ClaimedFloor(last.op)
        above == {i \in 1..Len(last.candidates) :
                    FGt(last.candidates[i].similarity, floor)}
    IN  /\ \A k \in 1..Len(last.results) : FGt(last.results[k].similarity, floor)
        /\ Ids(last.results) \subseteq Ids(last.candidates)
        /\ \A i \in 1..Len(last.candidates) :
             FEq(last.candidates[i].similarity, floor) =>
               last.candidates[i].id \notin Ids(last.results)
        /\ Cardinality(above) <= CapOf(last) =>
             Ids(last.results) = {last.candidates[i].id : i \in above}

\* a search over two entries, one scoring exactly 0.1 and one scoring 0.15:
\* only the second is returned
C10_Witness ==
  /\ last.op = "search" /\ last.status = 200 /\ Len(last.candidates) = 2
  /\ \E i \in 1..2 : last.candidates[i].similarity = ClaimedFloor("search")
  /\ Len(last.results) = 1
  /\ last.results[1].similarity = ClaimedFloor("reflect")

\* the cap the claim gives search, reflect and coach
ClaimedCap(op) ==
  CASE op = "search"  -> 10
    [] op = "reflect" -> 5
    [] op = "coach"   -> 3

\* the positions of the candidates of the request that score above floor
AboveClaimedFloor(request) ==
  {i \in 1..Len(request.candidates) :
     FGt(request.candidates[i].similarity, ClaimedFloor(request.op))}

\* C11: search, reflect and coach return min(cap, number of candidates above
\* the floor) results, with cap 10, 5 and 3, and no candidate above the
\* floor that is left out scores strictly higher than one that is returned.
C11_CountAndTopScoring ==
  (/\ last.op \in {"search", "reflect", "coach"}
   /\ last.status \in {200, 500}
   /\ Truthy(last.text)) =>
    LET above == AboveClaimedFloor(last)
    IN  /\ Len(last.results) = Min(ClaimedCap(last.op), Cardinality(above))
        /\ Cardinality(Ids(last.results)) = Len(last.results)
        /\ Ids(last.results) \subseteq {last.candidates[i].id : i \in above}
        /\ \A i \in above :
             last.candidates[i].id \notin Ids(last.results) =>
               \A k \in 1..Len(last.results) :
                 ~FGt(last.candidates[i].similarity, last.results[k].similarity)

\* the coach context over five rows above the floor, the best of them last
\* in the table: three are returned, the best first, and two are left out
C11_Witness ==
  /\ last.op = "coach" /\ Len(last.candidates) = 5
  /\ Cardinality(AboveClaimedFloor(last)) = 5
  /\ Len(last.results) = 3
  /\ last.results[1].id = 5
  /\ FGt(last.results[1].similarity, last.results[2].similarity)

\* C12: find_related returns at most limit results (none for a limit below
\* 1), and at most 5 when the limit is missing.
C12_AtMostLimit ==
  last.op = "find_related" =>
    Len(last.results) <= (IF last.limit = <<>> THEN 5 ELSE Max(last.limit[1], 0))

\* the limit -1 over eight rows above the floor: seven are returned
C12_Witness ==
  /\ last.op = "find_related" /\ last.limit = <<-1>>
  /\ Cardinality(AboveClaimedFloor(last)) = 8
  /\ Len(last.results) = 7

\* the place of the candidate with this id in the order the rows came back
PlaceOf(request, id) ==
  CHOOSE i \in 1..Len(request.candidates) : request.candidates[i].id = id

\* C13: the results of every consumer are in non-increasing order of
\* similarity, and results of equal similarity keep the order in which the
\* rows came back from the table.
C13_DescendingAndStable ==
  last.op \in RetrievalOps =>
    \A k, l \in 1..Len(last.results) :
      k < l =>
        /\ FGe(last.results[k].similarity, last.results[l].similarity)
        /\ FEq(last.results[k].similarity, last.results[l].similarity) =>
             PlaceOf(last, last.results[k].id) < PlaceOf(last, last.results[l].id)

\* a search over four rows, the best of them last: it comes out first, and
\* the three rows of equal score follow in the order of the table
C13_Witness ==
  /\ last.op = "search" /\ Len(last.candidates) = 4 /\ Len(last.results) = 4
  /\ last.results[1].id = 4
  /\ FGt(last.results[1].similarity, last.results[2].similarity)
  /\ last.results[2].similarity = last.results[4].similarity
  /\ <<last.results[2].id, last.results[3].id, last.results[4].id>> = <<1, 2, 3>>

\* the retrieval requests that scored the table
Scored(request) ==
  request.op \in RetrievalOps /\ request.status \in {200, 500} /\ Truthy(request.text)

\* C14: the scored candidates of a retrieval are exactly the requesting
\* user's rows whose embedding is not NULL, each scored once; a row with a
\* NULL embedding is not scored and is in no result.
C14_OnlyEmbeddedRowsScored ==
  Scored(last) =>
    /\ Ids(last.candidates) =
         {entries[i].id : i \in {j \in 1..Len(entries) :
                                   /\ entries[j].user_id = last.user
                                   /\ entries[j].embedding # NULL}}
    /\ Cardinality(Ids(last.candidates)) = Len(last.candidates)
    /\ Ids(last.results) \subseteq Ids(last.candidates)

\* a search of u1, who owns one row with an embedding and one without: only
\* the first is scored, and it is returned
C14_Witness ==
  /\ last.op = "search" /\ last.user = "u1" /\ last.status = 200
  /\ Len(entries) = 2
  /\ entries[1].user_id = "u1" /\ entries[1].embedding = NULL
  /\ entries[2].user_id = "u1" /\ entries[2].embedding # NULL
  /\ Ids(last.candidates) = {2} /\ Ids(last.results) = {2}

\* the rows of the table that this user owns
OwnRows(u) == {entries[i] : i \in {j \in 1..Len(entries) : entries[j].user_id = u}}

\* C15: whatever the users have created, updated and deleted, every
\* candidate and every result of a retrieval is a row of the requesting
\* user, with that row's id and content; the rows of another user are not
\* among them.
C15_OnlyOwnEntries ==
  Scored(last) =>
    /\ \A i \in 1..Len(last.candidates) :
         \E row \in OwnRows(last.user) :
           row.id = last.candidates[i].id /\ row.content = last.candidates[i].content
    /\ \A k \in 1..Len(last.results) :
         \E row \in OwnRows(last.user) :
           row.id = last.results[k].id /\ row.content = last.results[k].content
    /\ Len(last.candidates) <= Cardinality(OwnRows(last.user))

\* u1 and u2 each own a row that scores above the floor: a search of u2
\* returns the row of u2 alone
C15_Witness ==
  /\ last.op = "search" /\ last.user = "u2" /\ last.status = 200
  /\ Len(entries) = 2
  /\ entries[1].user_id = "u1" /\ entries[2].user_id = "u2"
  /\ entries[1].embedding = entries[2].embedding
  /\ Ids(last.results) = {entries[2].id}

\* what one write request stores: its content as stored, with the embedding
\* it computed
WritePairs ==
  {[content |-> trim(raw), embedding |-> StoredJson(getEmbedding(raw))] :
     raw \in {c \in ContentInputs : Truthy(c)}}

WrittenTogether(row) ==
  /\ row.embedding # NULL
  /\ [content |-> row.content, embedding |-> row.embedding] \in WritePairs

\* C16: however create and update requests and reads overlap, every row of
\* the table, and every row a reader has seen, holds a content together
\* with the embedding the same request computed, never without an embedding
\* and never with the embedding of an earlier content; and a write that is
\* about to be acknowledged with 200 is in the table.
C16_ContentAndEmbeddingTogether ==
  /\ \A i \in 1..Len(entries) : WrittenTogether(entries[i])
  /\ \A i \in 1..Len(seen) : WrittenTogether(seen[i])
  /\ \A slot \in 1..MaxInflight :
       (slots[slot].stage = "applied" /\ slots[slot].status = 200) =>
         \E i \in 1..Len(entries) : entries[i].id = slots[slot].id

\* two updates of one entry with different contents overlap: the first has
\* run, the second has not, and a reader has seen the row of the first
C16_Witness ==
  /\ slots[1].op = "update" /\ slots[1].stage = "applied" /\ slots[1].status = 200
  /\ slots[2].op = "update" /\ slots[2].stage = "computed"
  /\ slots[1].id = slots[2].id /\ slots[1].user = slots[2].user
  /\ slots[1].hasContent /\ slots[2].hasContent
  /\ slots[1].content # slots[2].content
  /\ Len(seen) = 1 /\ seen[1].id = slots[1].id
  /\ seen[1].content = slots[1].content
  /\ seen[1].embedding = StoredJson(slots[1].embedding)

\* C17: once DELETE /api/entries/:id has answered its owner with success,
\* no row of the table has that id (the embedding is a column of the row and
\* goes with it), a GET of the id is answered 404, and no list, search,
\* reflect, coach or tool result, and no candidate scored for one, has the id.
C17_DeletedStaysGone ==
  /\ \A i \in 1..Len(entries) : entries[i].id \notin deleted
  /\ (last.op = "get" /\ last.id \in deleted) => last.status = 404
  /\ last.op \in {"get", "list"} \cup RetrievalOps =>
       /\ Ids(last.results) \cap deleted = {}
       /\ Ids(last.candidates) \cap deleted = {}

\* an entry was deleted and another entry of the same user is still there:
\* the owner's GET of the deleted id is answered 404
C17_Witness ==
  /\ last.op = "get" /\ last.id \in deleted /\ last.status = 404
  /\ \E i \in 1..Len(entries) : entries[i].user_id = last.user

\* after a delete, a search of the owner still finds the owner's other entry
C17_SearchWitness ==
  /\ last.op = "search" /\ deleted # {} /\ Len(last.results) = 1
  /\ last.results[1].id \notin deleted

\* the four strategies on a text, in the order of the code
Strategies(text) ==
  <<DirectParse(text), FencedParse(text), BraceParse(text), BracketParse(text)>>

\* the strategies whose pattern matches and whose extract parses
Parsing(text) ==
  {k \in 1..4 : Strategies(text)[k].applies /\ Strategies(text)[k].parse.ok}

\* C18: for every text safeParseJson returns (no exception leaves it), and
\* when none of the four strategies parses, what it returns is null.
C18_NeverThrowsNullOnFailure ==
  jsonPc = "done" =>
    /\ ~jsonOut.threw
    /\ Parsing(jsonText) = {} => jsonOut.value = JsNull

\* a fenced block is found and its content does not parse, as in ```x```,
\* and nothing else parses: null is returned
C18_Witness ==
  /\ jsonPc = "done"
  /\ FencedParse(jsonText).applies
  /\ Parsing(jsonText) = {}
  /\ jsonOut = Returned(JsNull)

\* a brace substring is found and does not parse, as in {x}, and nothing
\* else parses: null is returned
C18_SubstringWitness ==
  /\ jsonPc = "done"
  /\ BraceParse(jsonText).applies
  /\ Parsing(jsonText) = {}
  /\ jsonOut = Returned(JsNull)

\* C19: the value returned is the value of the first strategy, in the order
\* whole string, fenced block, first '{' to last '}', first '[' to last ']',
\* whose extract parses, whatever the later strategies would give.
C19_FirstStrategyThatParsesWins ==
  (jsonPc = "done" /\ Parsing(jsonText) # {}) =>
    jsonOut = Returned(Strategies(jsonText)[Least(Parsing(jsonText))].parse.value)

\* the whole string does not parse and no fenced block is found; the brace
\* substring and the bracket substring parse to different values, as in
\* [1]{"a":1}: the value of the brace substring is returned
C19_Witness ==
  /\ jsonPc = "done"
  /\ Parsing(jsonText) = {3, 4}
  /\ BraceParse(jsonText).parse.value # BracketParse(jsonText).parse.value
  /\ jsonOut = Returned(BraceParse(jsonText).parse.value)

\* a fenced block and the brace substring parse to different values: the
\* value of the fenced block is returned
C19_FenceWitness ==
  /\ jsonPc = "done"
  /\ {2, 3} \subseteq Parsing(jsonText) /\ 1 \notin Parsing(jsonText)
  /\ FencedParse(jsonText).parse.value # BraceParse(jsonText).parse.value
  /\ jsonOut = Returned(FencedParse(jsonText).parse.value)

\* C20: what safeParseJson returns is an object, an array or null, never a
\* number, a string or a boolean.
C20_OnlyObjectArrayOrNull ==
  jsonPc = "done" => jsonOut.value.kind \in {"object", "array", "null"}

\* safeParseJson("1") has returned the number 1
C20_Witness ==
  /\ jsonPc = "done" /\ jsonText = <<49>>
  /\ jsonOut = Returned(JsNumber(1, 0))

\* a fenced block that holds a scalar: the fenced parse returns true
C20_FencedScalarWitness ==
  /\ jsonPc = "done" /\ 1 \notin Parsing(jsonText) /\ 2 \in Parsing(jsonText)
  /\ jsonOut = Returned(JsBoolean(TRUE))

(***************************************************************************)
(* Claims about what the write requests leave in the table.                *)
(***************************************************************************)
\* C26: after any sequence of create and update requests, every stored entry
\* has a content that is not empty and not whitespace only.
C26_StoredContentNonEmpty ==
  \A i \in 1..Len(entries) : Truthy(trim(entries[i].content))

\* a PUT answered with success has left an entry with the empty content
C26_Witness ==
  /\ last.op = "update" /\ last.status = 200
  /\ \E i \in 1..Len(entries) : entries[i].content = <<>>

\* a PUT without content, with or without a title
TitleOnlyUpdate == \E title \in WriteTitles : UpdateEntry(<<>>, title)

\* a POST /api/analyze that reaches the agent
AnalysisRequest ==
  \E u \in Users, entryId \in 0..MaxEntries, run \in WriteRuns, dbOk \in BOOLEAN :
    AgentEndpoint("analyze", u, 0, entryId, run, dbOk)

\* the embedding of the query "bba"
BbaQuery == getEmbedding(TextBba)

\* the embeddings the write requests store, those of " bba" and of " ", and
\* the similarity of the query to each
StoredEmbeddings ==
  <<StoredJson(getEmbedding(TextSpaceBba)), StoredJson(getEmbedding(TextBlank))>>

StoredSimilarities ==
  Tuple([k \in 1..Len(StoredEmbeddings) |-> cosineSimilarity(BbaQuery, StoredEmbeddings[k])],
        Len(StoredEmbeddings))

\* cosineSimilarity(BbaQuery, embedding), looked up for a stored embedding
SimilarityToBba(embedding) ==
  LET hits == {k \in 1..Len(StoredEmbeddings) : StoredEmbeddings[k] = embedding}
  IN  IF hits # {} THEN StoredSimilarities[CHOOSE k \in hits : TRUE]
      ELSE cosineSimilarity(BbaQuery, embedding)

\* every row has the content, the embedding and the similarity to the query
\* "bba" it had
SameContentAndEmbedding ==
  /\ Len(entries') = Len(entries)
  /\ \A i \in 1..Len(entries) :
       /\ entries'[i].content = entries[i].content
       /\ entries'[i].embedding = entries[i].embedding
       /\ SimilarityToBba(entries'[i].embedding) = SimilarityToBba(entries[i].embedding)

\* C29: a PUT /api/entries/:id without content and an analysis write each
\* leave the content and the embedding of every entry as they were, and so
\* the entry's similarity to a query.
C29_TitleAndAnalysisKeepEmbedding ==
  [][(TitleOnlyUpdate \/ AnalysisRequest) => SameContentAndEmbedding]_vars

\* a PUT with a title alone has renamed the entry created from " bba", which
\* holds the content and the embedding of its creation
C29_Witness ==
  /\ last.op = "update" /\ last.status = 200
  /\ Len(entries) = 1 /\ entries[1].title = "Renamed"
  /\ entries[1].content = TextBba
  /\ entries[1].embedding = StoredJson(getEmbedding(TextSpaceBba))

\* POST /api/analyze has written the analysis {"mood":"ok"} to that entry
C29_AnalysisWitness ==
  /\ res.op = "analyze" /\ res.status = 200 /\ res.entryId = 1
  /\ Len(entries) = 1 /\ entries[1].analysis = <<AnalysisOf(safeParseJson(MoodText).value)>>
  /\ entries[1].analysis[1].mood = <<JsString(<<111, 107>>)>>
  /\ entries[1].content = TextBba
  /\ entries[1].embedding = StoredJson(getEmbedding(TextSpaceBba))

(***************************************************************************)
(* Claims about degenerate queries and failures of the collaborators.      *)
(***************************************************************************)
\* C23: a non-empty query whose normalized text has fewer than 3 characters
\* embeds to the zero vector, scores 0 against every candidate, and gets an
\* empty result list from every retrieval consumer, answered without an
\* error (the status of reflect is that of its agent call).
C23_ShortQueryFindsNothing ==
  (last.op \in RetrievalOps /\ last.text # <<>> /\ Len(Normalize(last.text)) < 3) =>
    /\ getEmbedding(last.text) = ZeroVector
    /\ \A i \in 1..Len(last.candidates) :
         last.candidates[i].similarity = FZero(0)
    /\ last.results = <<>>
    /\ last.op # "reflect" => last.status = 200

\* a search for "hi" by the owner of two entries: both are scored, none is
\* returned
C23_Witness ==
  /\ last.op = "search" /\ last.text = <<104, 105>> /\ last.status = 200
  /\ Len(last.candidates) = 2 /\ last.results = <<>>

\* find_related with "!!" and limit 1 over one entry
C23_FindRelatedWitness ==
  /\ last.op = "find_related" /\ last.text = <<33, 33>> /\ last.limit = <<1>>
  /\ Len(last.candidates) = 1 /\ last.results = <<>>

\* what safeParseJson returned to the handler that has answered
ReturnedToHandler == safeParseJson(res.full)

\* the user is told of a failure: an error status, or an error event in the
\* stream
FailureReported ==
  res.status >= 400 \/ \E k \in 1..Len(res.events) : res.events[k] = "error"

\* C21: an endpoint that has parsed the completion text with safeParseJson
\* and got null reports a failure to the user.
C21_NullParseReportsFailure ==
  (res.stage = "returned" /\ res.parsed /\ ReturnedToHandler = Returned(JsNull)) =>
    FailureReported

\* POST /api/analyze with the completion x: 500
C21_Witness ==
  /\ res.op = "analyze" /\ res.stage = "returned" /\ res.parsed
  /\ res.full = <<120>> /\ ReturnedToHandler = Returned(JsNull)
  /\ res.status = 500 /\ res.body = "error"

\* POST /api/stream/analyze with the tokens x and {: the response is ended
\* with status 200 and the events token, token, [DONE]
C21_StreamWitness ==
  /\ res.op = "stream_analyze" /\ res.stage = "returned" /\ res.parsed
  /\ res.full = <<120, 123>> /\ ReturnedToHandler = Returned(JsNull)
  /\ res.status = 200 /\ res.ended /\ res.events = <<"token", "token", "done">>

\* GET /api/prompts with the completion x: 200 with the default prompts
C21_PromptsWitness ==
  /\ res.op = "prompts" /\ res.stage = "returned" /\ res.parsed
  /\ res.full = <<120>> /\ res.status = 200 /\ res.body = "defaults"

\* the events that end a stream: data: [DONE], or an error event
TerminalEvents == {"done", "error"}

\* one terminal event was written, and it is the last event
EndedByOneTerminalEvent ==
  /\ res.events # <<>>
  /\ res.events[Len(res.events)] \in TerminalEvents
  /\ \A k \in 1..(Len(res.events) - 1) : res.events[k] \notin TerminalEvents

\* C28: a streaming response whose headers are sent is eventually ended,
\* and an ended stream holds exactly one terminal event, its last event.
C28_StreamEventuallyEnded ==
  /\ [](res.op \in StreamEndpoints /\ res.stage # "idle" /\ res.ended /\ res.events # <<>>
          => EndedByOneTerminalEvent)
  /\ (res.stage = "streaming") ~> res.ended

\* the token stream of the coach failed after one token: the response is
\* ended by the error event
C28_Witness ==
  /\ res.op = "stream_coach" /\ res.stage = "returned" /\ res.ended
  /\ res.events = <<"token", "error">>

\* POST /api/stream/analyze with an entryId and the completion {}: the
\* UPDATE of the analysis failed, the handler has returned, and the response
\* holds two tokens and is not ended
C28_NeverEndedWitness ==
  /\ res.op = "stream_analyze" /\ res.entryId = 1 /\ res.full = <<123, 125>>
  /\ res.stage = "returned" /\ res.headersSent /\ ~res.ended
  /\ res.events = <<"token", "token">>

C22_FailureWitness ==
  /\ failures = 1 /\ last.op = "search" /\ last.status = 500
  /\ last.fetches = 1 /\ last.results = <<>> /\ Len(entries) = 1

(***************************************************************************)
(* Claims about the agent invocations.                                     *)
(***************************************************************************)
\* C27: every invocation that has run its agent called the LLM with the API
\* key resolved for its user in its request.
C27_RunUsesResolvedKey ==
  \A slot \in 1..MaxRuns :
    runs[slot].stage = "ended" => runs[slot].usedKey = runs[slot].apiKey

\* the first invocation of an agent: its runner is built with the key of the
\* request, and the LLM is called with it
C27_Witness ==
  /\ runs[1].stage = "ended" /\ runs[1].outcome = "returned"
  /\ runs[1].user = "u1" /\ runs[1].apiKey = "key-1" /\ runs[1].usedKey = "key-1"
  /\ Len(sessions) = 1

\* u2, who has stored no key, runs the agent that u1 ran first: the LLM is
\* called with the key of u1
C27_OtherUsersKeyWitness ==
  /\ runs[1].stage = "ended" /\ runs[1].user = "u2" /\ runs[1].agent = "coach"
  /\ keys["u2"] = "" /\ runs[1].apiKey = EnvKey
  /\ runs[1].usedKey = "key-1" /\ keys["u1"] = "key-1"

\* C30: a live session belongs to an invocation in flight; when none is in
\* flight no session is left.
C30_SessionDeletedWhenInvocationEnds ==
  \A k \in 1..Len(sessions) :
    sessions[k].live =>
      \E slot \in 1..MaxRuns : runs[slot].stage = "running" /\ runs[slot].session = k

\* runAgent has returned and its session is deleted
C30_Witness ==
  /\ runs[1].stage = "ended" /\ runs[1].kind = "run" /\ runs[1].outcome = "returned"
  /\ runs[2] = NoRun
  /\ Len(sessions) = 1 /\ ~sessions[1].live

\* runAgent has thrown, nothing is in flight, and its session is live
C30_LeakWitness ==
  /\ runs[1] = NoRun /\ runs[2] = NoRun
  /\ Len(sessions) = 1 /\ sessions[1].live

(***************************************************************************)
(* Claims about authentication and signup.                                 *)
(***************************************************************************)
\* the request at the gate carries no session userId and no validated Azure
\* user
NoCredentials ==
  /\ gate.stage = "decided"
  /\ gate.sessionUser = ""
  /\ ~(azureEnabled /\ gate.bearer = "valid")

\* no handler has run for the request at the gate
HandlerNeverRan == last = NoRequest

\* nothing of the tables is read into an answer or changed by this step
NothingReadOrChanged == entries' = entries /\ nextId' = nextId /\ last' = NoRequest

\* C24 as stated: a request without credentials at a guarded route is
\* answered 401 'Not authenticated' and its handler never runs.
C24_NoCredentials401NotAuthenticated ==
  NoCredentials =>
    /\ gate.outcome = "answered" /\ gate.status = 401
    /\ gate.error = "Not authenticated"
    /\ HandlerNeverRan

\* C24 amended: a request without credentials at a guarded route is answered
\* 401 and its handler never runs, so that no step made while it is at the
\* gate reads or changes the tables; the error is 'Invalid or expired Azure
\* AD token' when Azure auth is enabled and the request carries a Bearer
\* token that fails validation, and 'Not authenticated' otherwise.
C24_NoCredentials401 ==
  /\ [](NoCredentials =>
          /\ gate.outcome = "answered" /\ gate.status = 401
          /\ gate.error = IF azureEnabled /\ gate.bearer = "invalid"
                          THEN "Invalid or expired Azure AD token"
                          ELSE "Not authenticated"
          /\ HandlerNeverRan)
  /\ [][NoCredentials => NothingReadOrChanged]_vars

\* a request with no session and no token was turned away while the table
\* holds an entry
C24_Witness ==
  /\ NoCredentials /\ gate.bearer = "none"
  /\ gate.status = 401 /\ gate.error = "Not authenticated"
  /\ Len(entries) = 1 /\ last = NoRequest

\* Azure auth is enabled and the request carries a token that fails
\* validation: azureAuthMiddleware has answered
C24_InvalidTokenWitness ==
  /\ NoCredentials /\ azureEnabled /\ gate.bearer = "invalid"
  /\ gate.status = 401 /\ gate.error = "Invalid or expired Azure AD token"
  /\ Len(entries) = 1 /\ last = NoRequest

\* some row of users holds the email
Registered(email) == \E i \in 1..Len(users) : users[i].email = email

\* the signup in the slot, past validation, is answered by this step
SignupAnswered(slot) ==
  /\ signups[slot].stage \in {"checking", "inserting"}
  /\ signups'[slot].stage = "answered"

\* no two rows of users hold one email
AtMostOneUserPerEmail ==
  \A i, j \in 1..Len(users) : users[i].email = users[j].email => i = j

\* C25: at most one user exists per email, and a signup answered while its
\* email is registered already is answered 400 'Email already exists', with
\* the table users unchanged and no session established.
C25_DuplicateSignupAnswered400 ==
  /\ []AtMostOneUserPerEmail
  /\ [][\A slot \in 1..MaxInflight :
          SignupAnswered(slot) /\ Registered(signups[slot].email) =>
            /\ signups'[slot].status = 400
            /\ signups'[slot].error = "Email already exists"
            /\ users' = users
            /\ signups'[slot].sessionUser = 0]_vars

\* two signups for one email overlapped: one created the user, the other
\* is answered 500 'Server error'
C25_Witness ==
  \E slot \in 1..MaxInflight :
    /\ signups[slot].stage = "answered"
    /\ signups[slot].status = 500 /\ signups[slot].error = "Server error"
    /\ Len(users) = 1 /\ users[1].email = signups[slot].email
    /\ signups[slot].sessionUser = 0

\* a signup that began after the email was registered is answered 400
C25_SequentialWitness ==
  \E slot \in 1..MaxInflight :
    /\ signups[slot].stage = "answered"
    /\ signups[slot].status = 400 /\ signups[slot].error = "Email already exists"
    /\ Len(users) = 1 /\ users[1].email = signups[slot].email

====
